---- MODULE Spec2Model ----
(***************************************************************************)
(* Model of the Modular Flutter L10n extension's ARB parsing core          *)
(* (src/src/arb_parser.ts): the static ICU message helpers of ArbParser,   *)
(* computed character by character as the regular expressions and loops of *)
(* the source compute them, and the key aggregation of parseModules.       *)
(*                                                                         *)
(* A message text is a sequence of one-character strings.  Indices into a  *)
(* text are 0-based, as in the source: CharAt(t, i) is text[i].            *)
(***************************************************************************)
EXTENDS Integers, Sequences, FiniteSets, TLC

VARIABLES
    text,           \* the message string passed to a static ArbParser helper
    metadata,       \* the metadata argument of getOrderedPlaceholders
    call,           \* the helper that was called last ("idle" between calls)
    ret,            \* the value the helper returned
    disk,           \* the content of each .arb file on disk
    modules,        \* the Module[] handed to parseModules
    pc,             \* where parseModules / parseModule stands
    mi,             \* parseModules: index of the module being parsed
    fi,             \* parseModule: index of the next arbFile of the module
    keysMap,        \* parseModule: the insertion-ordered Map key -> TranslationKey
    parsedModules,  \* parseModules: the ParsedModule[] built so far
    outputs,        \* what each completed parseModules call resolved to
    pubspec,        \* pubspec.yaml as PubspecConfigReader finds it
    settings,       \* the modularL10n section of the VS Code settings
    effective,      \* what the last getEffectiveConfig call returned
    arbFilePaths,   \* the files findArbFiles resolves to, in discovery order
    spc,            \* where scanModules stands
    si,             \* scanModules: index of the next discovered file
    smodules,       \* scanModules: the Map name -> Module, insertion-ordered
    detectedLocales,            \* scanModules: the Set of locales
    validationErrors,           \* scanModules: the error lines
    skippedFlutterIntlFiles,    \* scanModules: the intl_*.arb files passed over
    flutterIntlDetected,        \* scanModules: an intl_*.arb file was seen
    scanResult,     \* the ScanResult the last scanModules call resolved to
    activated,      \* activate() of the extension has run
    fileWatcher,    \* the extension's fileWatcher: "undefined" or "started"
    debounceTimer,  \* FileWatcher.debounceTimer: "null", "armed" or "expired"
    log,            \* the lines written to the console and the output channel
    deactivated,    \* deactivate() of the extension has run
    watchers,       \* the number of chokidar watchers that are not closed
    timers,         \* the number of timeouts that are set and not cleared
    running,        \* the number of onChange calls that have not settled
    caught,         \* the number of onChange errors caught and written to
                    \* console.error
    flutterIntl,    \* the flutter_intl section of pubspec.yaml
    gpc,            \* where generateTranslations stands
    prompts,        \* the number of conflict warnings shown so far
    changedToML,    \* the user has answered 'Change to ML'
    generator       \* the options of every DartGenerator that ran generate()

helperVars == <<text, metadata, call, ret>>
parserVars == <<disk, modules, pc, mi, fi, keysMap, parsedModules, outputs>>
configVars == <<pubspec, settings, effective>>
scannerVars == <<arbFilePaths, spc, si, smodules, detectedLocales, validationErrors,
                 skippedFlutterIntlFiles, flutterIntlDetected, scanResult>>
watcherVars == <<activated, fileWatcher, debounceTimer, log, deactivated,
                 watchers, timers, running, caught>>
generateVars == <<flutterIntl, gpc, prompts, changedToML, generator>>
extVars == <<configVars, scannerVars, watcherVars, generateVars>>
vars == <<text, metadata, call, ret, disk, modules, pc, mi, fi, keysMap,
          parsedModules, outputs, pubspec, settings, effective, arbFilePaths, spc,
          si, smodules, detectedLocales, validationErrors,
          skippedFlutterIntlFiles, flutterIntlDetected, scanResult, activated,
          fileWatcher, debounceTimer, log, deactivated, watchers, timers,
          running, caught, flutterIntl, gpc, prompts, changedToML, generator>>

Undefined == "undefined"
Null == "null"

(***************************************************************************)
(* Characters and the character classes of the regular expressions.        *)
(***************************************************************************)
WordChars ==
    {"a","b","c","d","e","f","g","h","i","j","k","l","m","n","o","p","q","r",
     "s","t","u","v","w","x","y","z","A","B","C","D","E","F","G","H","I","J",
     "K","L","M","N","O","P","Q","R","S","T","U","V","W","X","Y","Z","0","1",
     "2","3","4","5","6","7","8","9","_"}

SpaceChars == {" ", "\t", "\n"}

\* \w
IsWord(c) == c \in WordChars

\* \s
IsSpace(c) == c \in SpaceChars

\* text[i]: undefined (here "EOF", equal to no character) outside the string
CharAt(t, i) == IF i >= 0 /\ i < Len(t) THEN t[i + 1] ELSE "EOF"

\* text.substring(a, b) for 0 <= a <= b <= text.length
Substring(t, a, b) == SubSeq(t, a + 1, b)

Range(s) == {s[k] : k \in 1..Len(s)}

\* Set.add on an insertion-ordered Set kept as a duplicate-free sequence
SetAdd(s, x) == IF x \in Range(s) THEN s ELSE Append(s, x)

\* the first index >= i whose character is not a word character (\w* from i)
RECURSIVE WordRunEnd(_, _)
WordRunEnd(t, i) == IF IsWord(CharAt(t, i)) THEN WordRunEnd(t, i + 1) ELSE i

\* the first index >= i whose character is not white space (\s* from i)
RECURSIVE SkipSpace(_, _)
SkipSpace(t, i) == IF IsSpace(CharAt(t, i)) THEN SkipSpace(t, i + 1) ELSE i

\* the literal w occurs in t at index i
StartsWith(t, i, w) ==
    /\ i + Len(w) <= Len(t)
    /\ SubSeq(t, i + 1, i + Len(w)) = w

(***************************************************************************)
(* The ICU header pattern  \{(\w+)\s*,\s*(plural|select|selectordinal)\s*,  *)
(***************************************************************************)
IcuTypes == <<"plural", "select", "selectordinal">>

Keyword(ty) ==
    CASE ty = "plural" -> <<"p","l","u","r","a","l">>
      [] ty = "select" -> <<"s","e","l","e","c","t">>
      [] ty = "selectordinal" ->
            <<"s","e","l","e","c","t","o","r","d","i","n","a","l">>

NoMatch == [ok |-> FALSE, index |-> -1, end |-> -1, variable |-> <<>>,
            type |-> Null]

\* The index after the match of  (ty)\s*,  at k, or -1 when it does not match
TypeEnd(t, k, ty) ==
    IF StartsWith(t, k, Keyword(ty))
       /\ CharAt(t, SkipSpace(t, k + Len(Keyword(ty)))) = ","
    THEN SkipSpace(t, k + Len(Keyword(ty))) + 1
    ELSE -1

\* The header pattern anchored at index i.  \w+ and \s* are greedy and what
\* follows each is outside its class, so only the maximal runs can match;
\* the alternation takes the first type, in order, that lets the rest match.
HeaderMatch(t, i) ==
    IF CharAt(t, i) # "{" THEN NoMatch
    ELSE LET w == WordRunEnd(t, i + 1) IN
         IF w = i + 1 \/ CharAt(t, SkipSpace(t, w)) # "," THEN NoMatch
         ELSE LET k == SkipSpace(t, SkipSpace(t, w) + 1)
                  ok == {n \in 1..Len(IcuTypes) : TypeEnd(t, k, IcuTypes[n]) >= 0}
              IN IF ok = {} THEN NoMatch
                 ELSE LET n == CHOOSE m \in ok : \A o \in ok : m <= o
                      IN [ok |-> TRUE, index |-> i,
                          end |-> TypeEnd(t, k, IcuTypes[n]),
                          variable |-> Substring(t, i + 1, w),
                          type |-> IcuTypes[n]]

\* pattern.exec(text) with lastIndex = from: the leftmost match at or after from
RECURSIVE Exec(_, _)
Exec(t, from) ==
    IF from >= Len(t) THEN NoMatch
    ELSE IF HeaderMatch(t, from).ok THEN HeaderMatch(t, from)
    ELSE Exec(t, from + 1)

\* The simple placeholder pattern  ^\{(\w+)\}  on text.substring(i)
SimpleMatch(t, i) ==
    IF CharAt(t, i) = "{"
       /\ WordRunEnd(t, i + 1) > i + 1
       /\ CharAt(t, WordRunEnd(t, i + 1)) = "}"
    THEN [ok |-> TRUE, name |-> Substring(t, i + 1, WordRunEnd(t, i + 1)),
          length |-> WordRunEnd(t, i + 1) - i + 1]
    ELSE [ok |-> FALSE, name |-> <<>>, length |-> 0]

(***************************************************************************)
(* Notions the properties are stated in, defined on the text itself.       *)
(***************************************************************************)
\* the indices at which an ICU header begins
HeaderStarts(t) == {i \in 0..(Len(t) - 1) : HeaderMatch(t, i).ok}

Min(S) == CHOOSE m \in S : \A o \in S : m <= o
Max(S) == CHOOSE m \in S : \A o \in S : m >= o

\* the control variables of the message
ControlVariables(t) == {HeaderMatch(t, i).variable : i \in HeaderStarts(t)}

\* the number of '{' minus the number of '}' among the first n characters
BraceBalance(t, n) ==
    Cardinality({k \in 1..n : t[k] = "{"}) - Cardinality({k \in 1..n : t[k] = "}"})

\* no prefix has more '}' than '{', and the whole text has as many of each
Balanced(t) ==
    /\ \A n \in 0..Len(t) : BraceBalance(t, n) >= 0
    /\ BraceBalance(t, Len(t)) = 0

\* "{w}" with w one or more word characters occupies the indices i..j
BarePlaceholderAt(t, i, j) ==
    /\ CharAt(t, i) = "{"
    /\ CharAt(t, j) = "}"
    /\ j > i + 1
    /\ \A m \in (i + 1)..(j - 1) : IsWord(CharAt(t, m))

\* the pairs <<i, j>> with BarePlaceholderAt(t, i, j): j is where the run of
\* word characters after the '{' at i ends
BarePlaceholders(t) ==
    {ij \in {<<i, WordRunEnd(t, i + 1)>> :
                i \in {k \in 0..(Len(t) - 1) : t[k + 1] = "{"}} :
        BarePlaceholderAt(t, ij[1], ij[2])}

\* the names w such that "{w}" occurs in the text
BareNames(t) == {Substring(t, ij[1] + 1, ij[2]) : ij \in BarePlaceholders(t)}

\* the '{' at i opens the body of a case: it follows the case's selector
\* inside a block
OpensCaseBody(t, i) == IsWord(CharAt(t, i - 1)) /\ BraceBalance(t, i) >= 1

\* the headers that are nested in no block
TopLevelHeaders(t) == {i \in HeaderStarts(t) : BraceBalance(t, i) = 0}

(***************************************************************************)
(* ArbParser.skipIcuBlock and ArbParser.isInsideIcuBlock                   *)
(***************************************************************************)
RECURSIVE SkipLoop(_, _, _)
SkipLoop(t, i, braceDepth) ==
    IF i >= Len(t) THEN Len(t)
    ELSE IF CharAt(t, i) = "{" THEN SkipLoop(t, i + 1, braceDepth + 1)
    ELSE IF CharAt(t, i) = "}"
         THEN IF braceDepth - 1 = 0 THEN i + 1
              ELSE SkipLoop(t, i + 1, braceDepth - 1)
    ELSE SkipLoop(t, i + 1, braceDepth)

skipIcuBlock(t, startPos) == SkipLoop(t, startPos, 0)

RECURSIVE InsideLoop(_, _, _, _, _)
InsideLoop(t, position, i, braceDepth, inIcu) ==
    IF i >= position THEN braceDepth > 0 /\ inIcu
    ELSE IF CharAt(t, i) = "{"
         THEN InsideLoop(t, position, i + 1, braceDepth + 1,
                         inIcu \/ HeaderMatch(t, i).ok)
    ELSE IF CharAt(t, i) = "}"
         THEN InsideLoop(t, position, i + 1, braceDepth - 1,
                         IF braceDepth - 1 = 0 THEN FALSE ELSE inIcu)
    ELSE InsideLoop(t, position, i + 1, braceDepth, inIcu)

isInsideIcuBlock(t, position) == InsideLoop(t, position, 0, 0, FALSE)

(***************************************************************************)
(* ArbParser.extractPlaceholders                                            *)
(***************************************************************************)
\* First pass: the control variable of every header match, in match order
RECURSIVE FirstPass(_, _, _)
FirstPass(t, lastIndex, found) ==
    LET m == Exec(t, lastIndex) IN
    IF ~m.ok THEN found
    ELSE FirstPass(t, m.end, SetAdd(found, m.variable))

\* the index at which the scan resumes after a '{' that starts an ICU header
ResumeAfterHeader(t, i) == skipIcuBlock(t, i)

\* a scan that also steps over the character after the placeholder
ResumeAfterSimpleAndOne(t, i) == i + SimpleMatch(t, i).length + 1

\* the index at which the scan resumes after a simple placeholder at i
ResumeAfterSimple(t, i) == i + SimpleMatch(t, i).length

\* a test that adds no placeholder found inside an ICU block
AddsSimpleOutsideOnly(t, i, icuVars) == ~isInsideIcuBlock(t, i)

\* whether the simple placeholder at i is added to the result
AddsSimple(t, i, icuVars) ==
    \/ SimpleMatch(t, i).name \notin Range(icuVars)
    \/ ~isInsideIcuBlock(t, i)

\* Second pass: the walk over the string that looks for {word} placeholders
RECURSIVE SecondPass(_, _, _, _)
SecondPass(t, i, placeholders, icuVars) ==
    IF i >= Len(t) THEN placeholders
    ELSE IF CharAt(t, i) = "{" /\ SimpleMatch(t, i).ok
         THEN IF HeaderMatch(t, i).ok
              THEN SecondPass(t, ResumeAfterHeader(t, i), placeholders, icuVars)
              ELSE SecondPass(t, ResumeAfterSimple(t, i),
                              IF AddsSimple(t, i, icuVars)
                              THEN SetAdd(placeholders, SimpleMatch(t, i).name)
                              ELSE placeholders,
                              icuVars)
    ELSE SecondPass(t, i + 1, placeholders, icuVars)

extractPlaceholders(t) ==
    SecondPass(t, 0, FirstPass(t, 0, <<>>), FirstPass(t, 0, <<>>))

(***************************************************************************)
(* ArbParser.hasIcuSyntax, getIcuType, getIcuSegments, isCompoundMessage   *)
(***************************************************************************)
hasIcuSyntax(t) == Exec(t, 0).ok

\* the type of the last header instead of the first
getIcuTypeOfLast(t) ==
    IF HeaderStarts(t) = {} THEN Null
    ELSE HeaderMatch(t, Max(HeaderStarts(t))).type

getIcuType(t) == IF Exec(t, 0).ok THEN Exec(t, 0).type ELSE Null

\* the inner for loop of getIcuSegments: the end of the block opened at start
RECURSIVE SegmentEnd(_, _, _, _)
SegmentEnd(t, start, i, braceDepth) ==
    IF i >= Len(t) THEN start
    ELSE IF CharAt(t, i) = "{" THEN SegmentEnd(t, start, i + 1, braceDepth + 1)
    ELSE IF CharAt(t, i) = "}"
         THEN IF braceDepth - 1 = 0 THEN i + 1
              ELSE SegmentEnd(t, start, i + 1, braceDepth - 1)
    ELSE SegmentEnd(t, start, i + 1, braceDepth)

\* where pattern.exec resumes after the match m (the regex's lastIndex)
NextSearchIndex(t, m) == m.end

RECURSIVE SegmentsLoop(_, _, _)
SegmentsLoop(t, lastIndex, segments) ==
    LET m == Exec(t, lastIndex) IN
    IF ~m.ok THEN segments
    ELSE LET end == SegmentEnd(t, m.index, m.index, 0) IN
         SegmentsLoop(t, NextSearchIndex(t, m),
                      Append(segments,
                             [variable |-> m.variable, type |-> m.type,
                              start |-> m.index, end |-> end,
                              raw |-> Substring(t, m.index, end)]))

getIcuSegments(t) == SegmentsLoop(t, 0, <<>>)

isCompoundMessage(t) == Len(getIcuSegments(t)) > 1

(***************************************************************************)
(* ArbParser.validateIcuSyntax                                              *)
(***************************************************************************)
ErrClosing == "Unmatched closing brace"
ErrOpening == "Unmatched opening brace"
ErrMissingOther(ty) ==
    IF ty = "plural" THEN "ICU plural message missing required 'other' case"
    ELSE "ICU selectordinal message missing required 'other' case"

\* a count that is looked at only once the whole string is scanned
RECURSIVE BraceScanFinalOnly(_, _, _)
BraceScanFinalOnly(t, i, braceCount) ==
    IF i >= Len(t) THEN (IF braceCount < 0 THEN -1 ELSE braceCount)
    ELSE BraceScanFinalOnly(t, i + 1,
            IF CharAt(t, i) = "{" THEN braceCount + 1
            ELSE IF CharAt(t, i) = "}" THEN braceCount - 1
            ELSE braceCount)

\* the brace counting loop: -1 when the count went negative, else the final count
RECURSIVE BraceScan(_, _, _)
BraceScan(t, i, braceCount) ==
    IF i >= Len(t) THEN braceCount
    ELSE LET c == IF CharAt(t, i) = "{" THEN braceCount + 1
                  ELSE IF CharAt(t, i) = "}" THEN braceCount - 1
                  ELSE braceCount
         IN IF c < 0 THEN -1 ELSE BraceScan(t, i + 1, c)

\* text.includes(w)
Includes(t, w) == \E i \in 0..Len(t) : StartsWith(t, i, w)

OtherOpen == <<"o","t","h","e","r","{">>

\* a check that forgets selectordinal
NeedsOtherPluralOnly(ty) == ty = "plural"

\* the types whose messages must carry an 'other' case
NeedsOther(ty) == ty = "plural" \/ ty = "selectordinal"

\* a validation that counts the braces of plain strings too
validateIcuSyntaxNoEarlyReturn(t) ==
    IF BraceScan(t, 0, 0) < 0 THEN [valid |-> FALSE, error |-> ErrClosing]
    ELSE IF BraceScan(t, 0, 0) # 0 THEN [valid |-> FALSE, error |-> ErrOpening]
    ELSE IF hasIcuSyntax(t) /\ NeedsOther(getIcuType(t)) /\ ~Includes(t, OtherOpen)
         THEN [valid |-> FALSE, error |-> ErrMissingOther(getIcuType(t))]
    ELSE [valid |-> TRUE, error |-> Undefined]

validateIcuSyntax(t) ==
    IF ~hasIcuSyntax(t) THEN [valid |-> TRUE, error |-> Undefined]
    ELSE IF BraceScan(t, 0, 0) < 0 THEN [valid |-> FALSE, error |-> ErrClosing]
    ELSE IF BraceScan(t, 0, 0) # 0 THEN [valid |-> FALSE, error |-> ErrOpening]
    ELSE IF NeedsOther(getIcuType(t)) /\ ~Includes(t, OtherOpen)
         THEN [valid |-> FALSE, error |-> ErrMissingOther(getIcuType(t))]
    ELSE [valid |-> TRUE, error |-> Undefined]

(***************************************************************************)
(* ArbParser.getOrderedPlaceholders.  An optional object is a record       *)
(* [defined, entries]: whether it is there, and its own entries            *)
(* <<name, value>> in property order; the names modelled are identifiers,  *)
(* for which property order is insertion order.                            *)
(***************************************************************************)
NoObject == [defined |-> FALSE, entries |-> <<>>]
Object(entries) == [defined |-> TRUE, entries |-> entries]

\* Object.keys(obj)
ObjectKeys(obj) == [k \in 1..Len(obj.entries) |-> obj.entries[k][1]]

\* the keys returned when metadata has entries
OrderedKeys(md) == ObjectKeys(md)

\* the placeholders of the text preferred to the metadata's
getOrderedPlaceholdersTextFirst(t, md) ==
    IF extractPlaceholders(t) # <<>> THEN extractPlaceholders(t)
    ELSE ObjectKeys(md)

getOrderedPlaceholders(t, md) ==
    IF ~md.defined THEN extractPlaceholders(t)
    ELSE IF Len(ObjectKeys(md)) > 0 THEN OrderedKeys(md)
    ELSE extractPlaceholders(t)

(***************************************************************************)
(* The message texts the helpers are called on: every concatenation of at  *)
(* most MaxFrags fragments, and the messages of the documentation.         *)
(***************************************************************************)
MaxFrags == 3

Fragments ==
    {<<"{">>, <<"}">>, <<"}","}">>, <<"x">>, <<",">>,
     <<"o","t","h","e","r","{","x","}">>,
     <<"{","c",",","p","l","u","r","a","l",",">>,
     <<"{","g",","," ","s","e","l","e","c","t"," ",",">>,
     <<"{","n",",","s","e","l","e","c","t","o","r","d","i","n","a","l",",">>,
     <<"o","t","h","e","r","{">>,
     <<"{","c","}">>, <<"{","x","}">>}

RECURSIVE TextsOf(_)
TextsOf(n) ==
    IF n = 0 THEN {<<>>}
    ELSE TextsOf(n - 1) \cup {x \o f : x \in TextsOf(n - 1), f \in Fragments}

\* "{count, plural, =0{none} other{{count} items}}"
ExPlural ==
    <<"{","c","o","u","n","t",","," ","p","l","u","r","a","l",","," ","=","0",
      "{","n","o","n","e","}"," ","o","t","h","e","r","{","{","c","o","u","n",
      "t","}"," ","i","t","e","m","s","}","}">>

\* "{gender, select, male{He} other{They}} has {count, plural, one{1 item} other{{count} items}}"
ExCompound ==
    <<"{","g","e","n","d","e","r",","," ","s","e","l","e","c","t",","," ","m",
      "a","l","e","{","H","e","}"," ","o","t","h","e","r","{","T","h","e","y",
      "}","}"," ","h","a","s"," ","{","c","o","u","n","t",","," ","p","l","u",
      "r","a","l",","," ","o","n","e","{","1"," ","i","t","e","m","}"," ","o",
      "t","h","e","r","{","{","c","o","u","n","t","}"," ","i","t","e","m","s",
      "}","}">>

\* "Hello {name}"
ExHello == <<"H","e","l","l","o"," ","{","n","a","m","e","}">>

\* "{count, plural, other{x}}"
ExValid ==
    <<"{","c","o","u","n","t",","," ","p","l","u","r","a","l",","," ","o","t",
      "h","e","r","{","x","}","}">>

\* "{count, plural, =0{x}}"
ExNoOther ==
    <<"{","c","o","u","n","t",","," ","p","l","u","r","a","l",","," ","=","0",
      "{","x","}","}">>

\* "{count, plural, other{x}"
ExUnclosed ==
    <<"{","c","o","u","n","t",","," ","p","l","u","r","a","l",","," ","o","t",
      "h","e","r","{","x","}">>

\* "{a, plural, other{{b, select, other{x}}}}"
ExNested ==
    <<"{","a",","," ","p","l","u","r","a","l",","," ","o","t","h","e","r","{",
      "{","b",","," ","s","e","l","e","c","t",","," ","o","t","h","e","r","{",
      "x","}","}","}","}">>

\* "{g, select, m{x}} {c, plural, one{y}}"
ExSelectFirst ==
    <<"{","g",","," ","s","e","l","e","c","t",","," ","m","{","x","}","}",
      " ","{","c",","," ","p","l","u","r","a","l",","," ","o","n","e","{",
      "y","}","}">>

\* "{n, plural, other{{name} x}}"
ExBodyPlaceholder ==
    <<"{","n",","," ","p","l","u","r","a","l",","," ","o","t","h","e","r","{",
      "{","n","a","m","e","}"," ","x","}","}">>

ExampleTexts ==
    {ExPlural, ExCompound, ExHello, ExValid, ExNoOther, ExUnclosed, ExNested,
     ExSelectFirst, ExBodyPlaceholder}

Texts == TextsOf(MaxFrags) \cup ExampleTexts

\* the metadata arguments: absent, empty, and declared placeholder mappings
NameA == <<"a">>
NameB == <<"b">>
NameC == <<"c">>
Info == [type |-> "String"]

Metadatas ==
    {NoObject, Object(<<>>), Object(<<<<NameB, Info>>, <<NameA, Info>>>>),
     Object(<<<<NameA, Info>>, <<NameB, Info>>>>), Object(<<<<NameC, Info>>>>)}

(***************************************************************************)
(* JavaScript values read from YAML and from the settings store: a value   *)
(* is undefined, a boolean or a string.                                    *)
(***************************************************************************)
JsUndefined == [type |-> "undefined", b |-> FALSE, s |-> ""]
Bool(b) == [type |-> "boolean", b |-> b, s |-> ""]
Str(s) == [type |-> "string", b |-> FALSE, s |-> s]

\* the operand of || is falsy
Falsy(v) ==
    \/ v.type = "undefined"
    \/ v.type = "boolean" /\ ~v.b
    \/ v.type = "string" /\ v.s = ""

\* a || d
Or(a, d) == IF Falsy(a) THEN d ELSE a

\* a ?? d
Nullish(a, d) == IF a.type = "undefined" THEN d ELSE a

\* a modular_l10n section that sets nothing
EmptyCfg ==
    [enabled |-> JsUndefined, class_name |-> JsUndefined,
     default_locale |-> JsUndefined, main_locale |-> JsUndefined,
     output_dir |-> JsUndefined, arb_dir_pattern |-> JsUndefined,
     generate_combined_arb |-> JsUndefined,
     use_deferred_loading |-> JsUndefined, watch_mode |-> JsUndefined]

\* there is no pubspec.yaml
NoPubspec == [kind |-> "missing", cfg |-> EmptyCfg]

\* no modularL10n setting is set
NoSettings ==
    [className |-> JsUndefined, outputPath |-> JsUndefined,
     defaultLocale |-> JsUndefined, arbFilePattern |-> JsUndefined,
     generateCombinedArb |-> JsUndefined, useDeferredLoading |-> JsUndefined,
     watchMode |-> JsUndefined]

\* no getEffectiveConfig call has returned
NoEffective == [defined |-> FALSE, config |-> NoSettings]

(***************************************************************************)
(* The parts of the extension a specification leaves at rest.              *)
(***************************************************************************)
HelpersIdle ==
    /\ text = <<>>
    /\ metadata = NoObject
    /\ call = "idle"
    /\ ret = Undefined

ParserIdle ==
    /\ disk = <<>>
    /\ modules = <<>>
    /\ pc = "idle"
    /\ mi = 0
    /\ fi = 0
    /\ keysMap = <<>>
    /\ parsedModules = <<>>
    /\ outputs = <<>>

ConfigIdle ==
    /\ pubspec = NoPubspec
    /\ settings = NoSettings
    /\ effective = NoEffective

\* no scanModules call has resolved
NoScanResult ==
    [defined |-> FALSE, modules |-> <<>>, detectedLocales |-> <<>>,
     validationErrors |-> NoObject, flutterIntlDetected |-> FALSE,
     skippedFlutterIntlFiles |-> NoObject]

ScannerIdle ==
    /\ arbFilePaths = <<>>
    /\ spc = "idle"
    /\ si = 0
    /\ smodules = <<>>
    /\ detectedLocales = <<>>
    /\ validationErrors = <<>>
    /\ skippedFlutterIntlFiles = <<>>
    /\ flutterIntlDetected = FALSE
    /\ scanResult = NoScanResult

WatcherIdle ==
    /\ activated = FALSE
    /\ fileWatcher = "undefined"
    /\ debounceTimer = "null"
    /\ log = <<>>
    /\ deactivated = FALSE
    /\ watchers = 0
    /\ timers = 0
    /\ running = 0
    /\ caught = 0

\* pubspec.yaml has no flutter_intl section
NoFlutterIntl == [present |-> FALSE, class_name |-> JsUndefined,
                  output_dir |-> JsUndefined]

GenerateIdle ==
    /\ flutterIntl = NoFlutterIntl
    /\ gpc = "idle"
    /\ prompts = 0
    /\ changedToML = FALSE
    /\ generator = <<>>

(***************************************************************************)
(* The calls.                                                               *)
(***************************************************************************)
InitIcu ==
    /\ text \in Texts
    /\ metadata = NoObject
    /\ call = "idle"
    /\ ret = Undefined
    /\ ParserIdle
    /\ ConfigIdle
    /\ ScannerIdle
    /\ WatcherIdle
    /\ GenerateIdle

CallExtractPlaceholders ==
    /\ call = "idle"
    /\ call' = "extractPlaceholders"
    /\ ret' = extractPlaceholders(text)
    /\ UNCHANGED <<text, metadata, parserVars, extVars>>

CallHasIcuSyntax ==
    /\ call = "idle"
    /\ call' = "hasIcuSyntax"
    /\ ret' = hasIcuSyntax(text)
    /\ UNCHANGED <<text, metadata, parserVars, extVars>>

CallGetIcuType ==
    /\ call = "idle"
    /\ call' = "getIcuType"
    /\ ret' = getIcuType(text)
    /\ UNCHANGED <<text, metadata, parserVars, extVars>>

CallGetIcuSegments ==
    /\ call = "idle"
    /\ call' = "getIcuSegments"
    /\ ret' = getIcuSegments(text)
    /\ UNCHANGED <<text, metadata, parserVars, extVars>>

CallIsCompoundMessage ==
    /\ call = "idle"
    /\ call' = "isCompoundMessage"
    /\ ret' = isCompoundMessage(text)
    /\ UNCHANGED <<text, metadata, parserVars, extVars>>

CallValidateIcuSyntax ==
    /\ call = "idle"
    /\ call' = "validateIcuSyntax"
    /\ ret' = validateIcuSyntax(text)
    /\ UNCHANGED <<text, metadata, parserVars, extVars>>

CallGetOrderedPlaceholders ==
    /\ call = "idle"
    /\ \E md \in Metadatas :
        /\ metadata' = md
        /\ ret' = getOrderedPlaceholders(text, md)
    /\ call' = "getOrderedPlaceholders"
    /\ UNCHANGED <<text, parserVars, extVars>>

Return ==
    /\ call # "idle"
    /\ call' = "idle"
    /\ ret' = Undefined
    /\ metadata' = NoObject
    /\ UNCHANGED <<text, parserVars, extVars>>

NextIcu ==
    \/ CallExtractPlaceholders
    \/ CallHasIcuSyntax
    \/ CallGetIcuType
    \/ CallGetIcuSegments
    \/ CallIsCompoundMessage
    \/ CallValidateIcuSyntax
    \/ CallGetOrderedPlaceholders
    \/ Return

SpecIcu == InitIcu /\ [][NextIcu]_vars

(***************************************************************************)
(* The .arb documents.  A key name is a sequence of characters.  A parsed  *)
(* document is the sequence of its entries <<key, value>> in property      *)
(* order (Object.entries); the key names modelled are not integer-like, so *)
(* property order is the order of the file.  A translation value stands    *)
(* for the string of that key in that file; a metadata value is a record,  *)
(* with Undefined for a property the object does not have.                 *)
(***************************************************************************)
NumFiles == 2
MaxRuns == 2

ArbPaths == 1..NumFiles
Locales == {"en", "ar"}
ModuleNames == {"auth", "home"}

KeyA == <<"a">>
KeyB == <<"b">>
KeyN == <<"n">>
MetaKeyA == <<"@","a">>
LocaleKey == <<"@","@","l","o","c","a","l","e">>
ContextKey == <<"@","@","c","o","n","t","e","x","t">>
\* the keys a document may hold besides "@@locale" and "@@context": two
\* translations, a translation and its metadata entry, or a translation and
\* the key whose value the files write as a number ("n": 1)
UserKeySets == {{KeyA, KeyB}, {KeyA, MetaKeyA}, {KeyA, KeyN}}

\* key.startsWith('@@') || key.startsWith('@')
IsMetadataKey(key) ==
    \/ (Len(key) >= 2 /\ key[1] = "@" /\ key[2] = "@")
    \/ (Len(key) >= 1 /\ key[1] = "@")

\* `@${key}`
MetadataKeyOf(key) == <<"@">> \o key

\* a placeholder description as written in a file: PlaceholderInfo's fields
\* and one property ("description") PlaceholderInfo does not have
InfoIn ==
    [type |-> "int", example |-> Undefined, format |-> "compact",
     isCustomDateFormat |-> Undefined, optionalParameters |-> Undefined,
     description |-> "n"]

\* the "@a" entry of file f
MetaValue(f) ==
    IF f = 1
    THEN [description |-> "description in file 1",
          placeholders |-> Object(<<<<NameB, InfoIn>>, <<NameA, InfoIn>>>>)]
    ELSE IF f = 2
    THEN [description |-> "description in file 2", placeholders |-> NoObject]
    ELSE [description |-> Undefined,
          placeholders |-> Object(<<<<NameC, InfoIn>>>>)]

\* the value of key in file f
ValueOf(f, key) ==
    IF key = MetaKeyA THEN MetaValue(f)
    ELSE IF key = KeyN THEN <<"number", f, key>>
    ELSE <<"text", f, key>>

\* the sequences of distinct keys drawn from a set
RECURSIVE KeyOrders(_)
KeyOrders(S) ==
    {<<>>} \cup UNION {{<<k>> \o rest : rest \in KeyOrders(S \ {k})} : k \in S}

\* what a file may hold: a JSON object with the keys ks after its "@@locale"
\* and "@@context", something that cannot be read or is not JSON, or "null"
Shapes ==
    {[kind |-> "object", keys |-> ks] :
        ks \in UNION {KeyOrders(S) : S \in UserKeySets}}
        \cup {[kind |-> "unreadable", keys |-> <<>>],
               [kind |-> "null", keys |-> <<>>]}

\* the content of file f of shape sh whose "@@locale" and "@@context" are loc, ctx
Content(f, sh, loc, ctx) ==
    IF sh.kind = "object"
    THEN [kind |-> "object",
          entries |-> <<<<LocaleKey, loc>>, <<ContextKey, ctx>>>>
                        \o [n \in 1..Len(sh.keys) |->
                                <<sh.keys[n], ValueOf(f, sh.keys[n])>>]]
    ELSE [kind |-> sh.kind, entries |-> <<>>]

\* content[key]: whether the object has the property, and its value
Lookup(entries, key) ==
    IF \E n \in 1..Len(entries) : entries[n][1] = key
    THEN [found |-> TRUE,
          value |-> entries[CHOOSE n \in 1..Len(entries) : entries[n][1] = key][2]]
    ELSE [found |-> FALSE, value |-> Undefined]

(***************************************************************************)
(* ModuleScanner.scanModules: the grouping of the accepted files, in       *)
(* discovery order, into modules by their "@@context".                     *)
(***************************************************************************)
IndexOfModule(ms, name) ==
    IF \E n \in 1..Len(ms) : ms[n].name = name
    THEN CHOOSE n \in 1..Len(ms) : ms[n].name = name
    ELSE 0

PushArbFile(ms, arbFile) ==
    LET ms1 == IF IndexOfModule(ms, arbFile.moduleName) = 0
               THEN Append(ms, [name |-> arbFile.moduleName,
                                path |-> <<"dir", arbFile.path>>,
                                arbFiles |-> <<>>])
               ELSE ms
        n == IndexOfModule(ms1, arbFile.moduleName)
    IN [ms1 EXCEPT ![n].arbFiles = Append(@, arbFile)]

RECURSIVE GroupModules(_, _)
GroupModules(arbFiles, ms) ==
    IF arbFiles = <<>> THEN ms
    ELSE GroupModules(Tail(arbFiles), PushArbFile(ms, Head(arbFiles)))

(***************************************************************************)
(* ArbParser.readArbFile, parsePlaceholders, parseModule, parseModules     *)
(***************************************************************************)
\* readArbFile: the parsed content, {} when reading or parsing throws
readArbFile(d, path) ==
    IF d[path].kind = "unreadable" THEN [kind |-> "object", entries |-> <<>>]
    ELSE d[path]

\* the PlaceholderInfo built from one entry of the placeholders object
ToPlaceholderInfo(info) ==
    [type |-> info.type, example |-> info.example, format |-> info.format,
     isCustomDateFormat |-> info.isCustomDateFormat,
     optionalParameters |-> info.optionalParameters]

parsePlaceholders(placeholders) ==
    IF ~placeholders.defined THEN NoObject
    ELSE Object([n \in 1..Len(placeholders.entries) |->
                    <<placeholders.entries[n][1],
                      ToPlaceholderInfo(placeholders.entries[n][2])>>])

\* metadata?.description and metadata?.placeholders, metadata = content[`@${key}`]
DescriptionOf(md) == IF ~md.found THEN Undefined ELSE md.value.description
PlaceholdersOf(md) == IF ~md.found THEN NoObject ELSE md.value.placeholders

\* keysMap.has(key)
Has(km, key) == \E n \in 1..Len(km) : km[n].key = key

\* the index of keysMap.get(key)
IndexOfKey(km, key) == CHOOSE n \in 1..Len(km) : km[n].key = key

\* the record created for a key seen for the first time, in document content
NewTranslationKey(key, content) ==
    [key |-> key,
     translations |-> <<>>,
     description |-> DescriptionOf(Lookup(content, MetadataKeyOf(key))),
     placeholders |->
        parsePlaceholders(PlaceholdersOf(Lookup(content, MetadataKeyOf(key))))]

\* translations[locale] = value on an object kept as its entries in order
SetProperty(obj, name, value) ==
    IF \E n \in 1..Len(obj) : obj[n][1] = name
    THEN [n \in 1..Len(obj) |->
            IF obj[n][1] = name THEN <<name, value>> ELSE obj[n]]
    ELSE Append(obj, <<name, value>>)

\* a loop body that stores the translation only when it creates the key
MergeEntryOnlyNew(km, content, locale, entry) ==
    IF IsMetadataKey(entry[1]) \/ Has(km, entry[1]) THEN km
    ELSE Append(km, [NewTranslationKey(entry[1], content) EXCEPT
                        !.translations = <<<<locale, entry[2]>>>>])

\* a loop body that takes the metadata of every document that carries it
MergeEntryLastMetadata(km, content, locale, entry) ==
    IF IsMetadataKey(entry[1]) THEN km
    ELSE LET km1 == IF Has(km, entry[1]) THEN km
                    ELSE Append(km, NewTranslationKey(entry[1], content))
             n == IndexOfKey(km1, entry[1])
             fresh == NewTranslationKey(entry[1], content)
         IN [km1 EXCEPT ![n] =
                [key |-> @.key,
                 translations |-> SetProperty(@.translations, locale, entry[2]),
                 description |->
                    IF Lookup(content, MetadataKeyOf(entry[1])).found
                    THEN fresh.description ELSE @.description,
                 placeholders |->
                    IF Lookup(content, MetadataKeyOf(entry[1])).found
                    THEN fresh.placeholders ELSE @.placeholders]]

\* a loop body that does not pass over the "@" keys
MergeEntryNoSkip(km, content, locale, entry) ==
    LET km1 == IF Has(km, entry[1]) THEN km
               ELSE Append(km, NewTranslationKey(entry[1], content))
        n == IndexOfKey(km1, entry[1])
    IN [km1 EXCEPT ![n].translations = SetProperty(@, locale, entry[2])]

\* the body of the loop over Object.entries(content), for one entry
MergeEntry(km, content, locale, entry) ==
    IF IsMetadataKey(entry[1]) THEN km
    ELSE LET km1 == IF Has(km, entry[1]) THEN km
                    ELSE Append(km, NewTranslationKey(entry[1], content))
             n == IndexOfKey(km1, entry[1])
         IN [km1 EXCEPT ![n].translations = SetProperty(@, locale, entry[2])]

RECURSIVE MergeEntries(_, _, _, _)
MergeEntries(km, content, locale, n) ==
    IF n > Len(content) THEN km
    ELSE MergeEntries(MergeEntry(km, content, locale, content[n]),
                      content, locale, n + 1)

\* a Map kept from the previous call of parseModule
StaleKeysMap == keysMap

\* the Map parseModule starts from
FreshKeysMap == <<>>

InitParser ==
    /\ \E loc \in [ArbPaths -> Locales], ctx \in [ArbPaths -> ModuleNames],
          sh \in [ArbPaths -> Shapes] :
        /\ loc[1] = "en"
        /\ ctx[1] = "auth"
        /\ disk = [f \in ArbPaths |-> Content(f, sh[f], loc[f], ctx[f])]
        /\ modules = GroupModules(
                        [f \in ArbPaths |->
                            [path |-> f, locale |-> loc[f], moduleName |-> ctx[f]]],
                        <<>>)
    /\ pc = "idle"
    /\ mi = 0
    /\ fi = 0
    /\ keysMap = <<>>
    /\ parsedModules = <<>>
    /\ outputs = <<>>
    /\ HelpersIdle
    /\ ConfigIdle
    /\ ScannerIdle
    /\ WatcherIdle
    /\ GenerateIdle

\* parseModules is called: const parsedModules = []
ParseModulesCall ==
    /\ pc = "idle"
    /\ Len(outputs) < MaxRuns
    /\ pc' = "modules"
    /\ parsedModules' = <<>>
    /\ mi' = 1
    /\ UNCHANGED <<disk, modules, fi, keysMap, outputs, helperVars, extVars>>

\* parseModule is entered for modules[mi]: const keysMap = new Map()
ParseModuleEnter ==
    /\ pc = "modules"
    /\ mi <= Len(modules)
    /\ pc' = "files"
    /\ keysMap' = FreshKeysMap
    /\ fi' = 1
    /\ UNCHANGED <<disk, modules, mi, parsedModules, outputs, helperVars, extVars>>

\* one iteration of the loop over module.arbFiles; Object.entries(null)
\* throws, which rejects parseModule and with it parseModules
ParseArbFile ==
    /\ pc = "files"
    /\ fi <= Len(modules[mi].arbFiles)
    /\ LET arbFile == modules[mi].arbFiles[fi]
           content == readArbFile(disk, arbFile.path)
       IN IF content.kind = "null"
          THEN /\ pc' = "idle"
               /\ outputs' = Append(outputs, [status |-> "rejected", value |-> <<>>])
               /\ UNCHANGED <<keysMap, fi>>
          ELSE /\ keysMap' = MergeEntries(keysMap, content.entries, arbFile.locale, 1)
               /\ fi' = fi + 1
               /\ UNCHANGED <<pc, outputs>>
    /\ UNCHANGED <<disk, modules, mi, parsedModules, helperVars, extVars>>

\* parseModule returns Array.from(keysMap.values()); parseModules pushes it
ParseModuleReturn ==
    /\ pc = "files"
    /\ fi > Len(modules[mi].arbFiles)
    /\ parsedModules' = Append(parsedModules,
                               [name |-> modules[mi].name,
                                path |-> modules[mi].path,
                                keys |-> keysMap])
    /\ mi' = mi + 1
    /\ pc' = "modules"
    /\ UNCHANGED <<disk, modules, fi, keysMap, outputs, helperVars, extVars>>

\* parseModules returns parsedModules
ParseModulesReturn ==
    /\ pc = "modules"
    /\ mi > Len(modules)
    /\ outputs' = Append(outputs, [status |-> "resolved", value |-> parsedModules])
    /\ pc' = "idle"
    /\ UNCHANGED <<disk, modules, mi, fi, keysMap, parsedModules, helperVars, extVars>>

NextParser ==
    \/ ParseModulesCall
    \/ ParseModuleEnter
    \/ ParseArbFile
    \/ ParseModuleReturn
    \/ ParseModulesReturn

SpecParser == InitParser /\ [][NextParser]_vars

(***************************************************************************)
(* The effective configuration (src/src/pubspec_config.ts and              *)
(* getEffectiveConfig of the extension).                                   *)
(***************************************************************************)
DEFAULT_CONFIG ==
    [enabled |-> Bool(TRUE),
     className |-> Str("ML"),
     defaultLocale |-> Str("en"),
     outputDir |-> Str("lib/generated/modular_l10n"),
     arbDirPattern |-> Str("**/l10n/*.arb"),
     generateCombinedArb |-> Bool(TRUE),
     useDeferredLoading |-> Bool(FALSE),
     watchMode |-> Bool(TRUE)]

\* the result of readConfig when it returns null
NoPubspecConfig == [defined |-> FALSE, config |-> DEFAULT_CONFIG]

\* PubspecConfigReader.readConfig
readConfig(p) ==
    IF p.kind = "missing" THEN NoPubspecConfig
    ELSE IF p.kind = "invalid" THEN NoPubspecConfig
    ELSE IF p.kind = "nosection" THEN NoPubspecConfig
    ELSE IF p.cfg.enabled = Bool(FALSE) THEN NoPubspecConfig
    ELSE [defined |-> TRUE,
          config |->
            [enabled |-> Bool(p.cfg.enabled # Bool(FALSE)),
             className |-> Or(p.cfg.class_name, DEFAULT_CONFIG.className),
             defaultLocale |-> Or(p.cfg.default_locale,
                                  Or(p.cfg.main_locale,
                                     DEFAULT_CONFIG.defaultLocale)),
             outputDir |-> Or(p.cfg.output_dir, DEFAULT_CONFIG.outputDir),
             arbDirPattern |-> Or(p.cfg.arb_dir_pattern,
                                  DEFAULT_CONFIG.arbDirPattern),
             generateCombinedArb |-> Nullish(p.cfg.generate_combined_arb,
                                             DEFAULT_CONFIG.generateCombinedArb),
             useDeferredLoading |-> Nullish(p.cfg.use_deferred_loading,
                                            DEFAULT_CONFIG.useDeferredLoading),
             watchMode |-> Nullish(p.cfg.watch_mode, DEFAULT_CONFIG.watchMode)]]

\* mergeConfigs
mergeConfigs(vscodeConfig, pubspecConfig) ==
    IF ~pubspecConfig.defined THEN vscodeConfig
    ELSE [className |-> pubspecConfig.config.className,
          outputPath |-> pubspecConfig.config.outputDir,
          defaultLocale |-> pubspecConfig.config.defaultLocale,
          arbFilePattern |-> pubspecConfig.config.arbDirPattern,
          generateCombinedArb |-> pubspecConfig.config.generateCombinedArb,
          useDeferredLoading |-> pubspecConfig.config.useDeferredLoading,
          watchMode |-> pubspecConfig.config.watchMode]

\* vscodeConfig.get(name, defaultValue)
Get(st, name, defaultValue) ==
    IF st[name].type = "undefined" THEN defaultValue ELSE st[name]

\* the vscodeValues of getEffectiveConfig
VscodeValues(st) ==
    [className |-> Get(st, "className", Str("ML")),
     outputPath |-> Get(st, "outputPath", Str("lib/generated/modular_l10n")),
     defaultLocale |-> Get(st, "defaultLocale", Str("en")),
     arbFilePattern |-> Get(st, "arbFilePattern", Str("**/l10n/*.arb")),
     generateCombinedArb |-> Get(st, "generateCombinedArb", Bool(TRUE)),
     useDeferredLoading |-> Get(st, "useDeferredLoading", Bool(FALSE)),
     watchMode |-> Get(st, "watchMode", Bool(TRUE))]

\* getEffectiveConfig
getEffectiveConfig(p, st) == mergeConfigs(VscodeValues(st), readConfig(p))

\* the names of the settings
SettingNames ==
    {"className", "outputPath", "defaultLocale", "arbFilePattern",
     "generateCombinedArb", "useDeferredLoading", "watchMode"}

\* the modular_l10n sections pubspec.yaml may hold
Cfgs ==
    [enabled : {JsUndefined, Bool(TRUE), Bool(FALSE)},
     class_name : {JsUndefined, Str(""), Str("AppL10n")},
     default_locale : {JsUndefined, Str("ar")},
     main_locale : {JsUndefined, Str("fr")},
     output_dir : {JsUndefined, Str("lib/l10n_out")},
     arb_dir_pattern : {JsUndefined, Str("lib/**/*.arb")},
     generate_combined_arb : {JsUndefined, Bool(FALSE)},
     use_deferred_loading : {JsUndefined, Bool(TRUE)},
     watch_mode : {JsUndefined, Bool(FALSE)}]

\* what PubspecConfigReader may find on disk
Pubspecs ==
    {NoPubspec, [kind |-> "invalid", cfg |-> EmptyCfg],
     [kind |-> "nosection", cfg |-> EmptyCfg]}
    \cup {[kind |-> "section", cfg |-> c] : c \in Cfgs}

\* what the settings store may hold
SettingsStores ==
    [className : {JsUndefined, Str("Tr")},
     outputPath : {JsUndefined, Str("lib/custom")},
     defaultLocale : {JsUndefined, Str("de")},
     arbFilePattern : {JsUndefined, Str("**/i18n/*.arb")},
     generateCombinedArb : {JsUndefined, Bool(FALSE)},
     useDeferredLoading : {JsUndefined, Bool(TRUE)},
     watchMode : {JsUndefined, Bool(FALSE)}]

InitConfig ==
    /\ pubspec \in Pubspecs
    /\ settings \in SettingsStores
    /\ effective = NoEffective
    /\ HelpersIdle
    /\ ParserIdle
    /\ ScannerIdle
    /\ WatcherIdle
    /\ GenerateIdle

\* a command of the extension calls getEffectiveConfig
GetEffectiveConfig ==
    /\ ~effective.defined
    /\ effective' = [defined |-> TRUE,
                     config |-> getEffectiveConfig(pubspec, settings)]
    /\ UNCHANGED <<pubspec, settings, helperVars, parserVars, generateVars, scannerVars,
                   watcherVars>>

\* the command is over
ConfigUsed ==
    /\ effective.defined
    /\ effective' = NoEffective
    /\ UNCHANGED <<pubspec, settings, helperVars, parserVars, generateVars, scannerVars,
                   watcherVars>>

NextConfig ==
    \/ GetEffectiveConfig
    \/ ConfigUsed

SpecConfig == InitConfig /\ [][NextConfig]_vars

(***************************************************************************)
(* ModuleScanner.scanModules (src/src/module_scanner.ts).  File names,     *)
(* locales and module names are sequences of characters, so that the       *)
(* regular expressions and the locale table are computed on them.          *)
(***************************************************************************)
\* the value of a JSON property: absent, a string, or a (non-zero) number
JsonAbsent == [type |-> "undefined", chars |-> <<>>]
JsonString(cs) == [type |-> "string", chars |-> cs]
JsonNumber == [type |-> "number", chars |-> <<"1">>]

\* !v
Not(v) == v.type = "undefined" \/ (v.type = "string" /\ v.chars = <<>>)

\* the entries of VALID_LOCALES the modelled locales can reach
VALID_LOCALES ==
    {<<"e","n">>, <<"e","n","_","U","S">>, <<"a","r">>,
     <<"a","r","_","E","G">>, <<"z","h">>, <<"z","h","_","C","N">>,
     <<"z","h","_","H","a","n","s">>, <<"z","h","_","H","a","n","s","_","C","N">>}

\* the entries of VALID_SCRIPTS the modelled locales can reach
VALID_SCRIPTS == {<<"H","a","n","s">>, <<"H","a","n","t">>, <<"L","a","t","n">>}

\* locale.replace(/-/g, '_')
ReplaceDashes(cs) == [k \in 1..Len(cs) |-> IF cs[k] = "-" THEN "_" ELSE cs[k]]

\* cs.split('_'), where cur is the part being read
RECURSIVE SplitLoop(_, _, _)
SplitLoop(cs, k, cur) ==
    IF k > Len(cs) THEN <<cur>>
    ELSE IF cs[k] = "_" THEN <<cur>> \o SplitLoop(cs, k + 1, <<>>)
    ELSE SplitLoop(cs, k + 1, Append(cur, cs[k]))

Split(cs) == SplitLoop(cs, 1, <<>>)

\* ModuleScanner.isValidLocale
isValidLocale(locale) ==
    LET normalizedLocale == ReplaceDashes(locale)
        parts == Split(normalizedLocale)
    IN IF normalizedLocale \in VALID_LOCALES THEN TRUE
       ELSE IF Len(parts) = 1 THEN parts[1] \in VALID_LOCALES
       ELSE IF Len(parts) = 2
            THEN parts[1] \in VALID_LOCALES \/ normalizedLocale \in VALID_LOCALES
       ELSE IF Len(parts) = 3
            THEN IF parts[1] \in VALID_LOCALES /\ parts[2] \in VALID_SCRIPTS
                 THEN TRUE
                 ELSE normalizedLocale \in VALID_LOCALES
       ELSE FALSE

LowerChars ==
    {"a","b","c","d","e","f","g","h","i","j","k","l","m","n","o","p","q","r",
     "s","t","u","v","w","x","y","z"}

DigitChars == {"0","1","2","3","4","5","6","7","8","9"}

\* ModuleScanner.isValidModuleName
isValidModuleName(name) ==
    IF name = <<>> \/ (\A k \in 1..Len(name) : name[k] = "_") THEN FALSE
    ELSE /\ name[1] \in LowerChars
         /\ \A k \in 2..Len(name) :
                name[k] \in LowerChars \cup DigitChars \cup {"_"}

\* ModuleScanner.isFlutterIntlFile:  /^intl_.*\.arb$/  on the base name
isFlutterIntlFile(fileName) ==
    /\ StartsWith(fileName, 0, <<"i","n","t","l","_">>)
    /\ Len(fileName) >= 9
    /\ StartsWith(fileName, Len(fileName) - 4, <<".","a","r","b">>)

ErrInvalidJson == [msg |-> "Invalid JSON syntax", arg |-> <<>>]
ErrMissingLocale == [msg |-> "Missing required property @@locale", arg |-> <<>>]
ErrLocaleNotString == [msg |-> "@@locale must be a string", arg |-> <<>>]
ErrInvalidLocale(locale) == [msg |-> "Invalid or unknown locale", arg |-> locale]
ErrMissingContext == [msg |-> "Missing required property @@context", arg |-> <<>>]
ErrContextNotString == [msg |-> "@@context must be a string", arg |-> <<>>]
ErrInvalidModuleName(name) == [msg |-> "Invalid module name", arg |-> name]
ErrReadingFile == [msg |-> "Error reading file", arg |-> <<>>]

Invalid(errors) ==
    [isValid |-> FALSE, moduleName |-> <<>>, locale |-> <<>>, errors |-> errors]

\* LocaleErrors without the look-up of the locale
LocaleErrorsAnyString(locale) ==
    IF Not(locale) THEN <<ErrMissingLocale>>
    ELSE IF locale.type # "string" THEN <<ErrLocaleNotString>>
    ELSE <<>>

\* the errors about @@locale
LocaleErrors(locale) ==
    IF Not(locale) THEN <<ErrMissingLocale>>
    ELSE IF locale.type # "string" THEN <<ErrLocaleNotString>>
    ELSE IF ~isValidLocale(locale.chars) THEN <<ErrInvalidLocale(locale.chars)>>
    ELSE <<>>

\* the errors about @@context
ContextErrors(moduleName) ==
    IF Not(moduleName) THEN <<ErrMissingContext>>
    ELSE IF moduleName.type # "string" THEN <<ErrContextNotString>>
    ELSE IF ~isValidModuleName(moduleName.chars)
         THEN <<ErrInvalidModuleName(moduleName.chars)>>
    ELSE <<>>

\* ModuleScanner.validateAndParseArbFile; reading the file throws when it is
\* unreadable, and json['@@locale'] throws when the JSON text is null
validateAndParseArbFile(content) ==
    IF content.kind = "unreadable" THEN Invalid(<<ErrReadingFile>>)
    ELSE IF content.kind = "badjson" THEN Invalid(<<ErrInvalidJson>>)
    ELSE IF content.kind = "null" THEN Invalid(<<ErrReadingFile>>)
    ELSE LET errors == LocaleErrors(content.locale)
                         \o ContextErrors(content.context)
         IN IF Len(errors) > 0 THEN Invalid(errors)
            ELSE [isValid |-> TRUE, moduleName |-> content.context.chars,
                  locale |-> content.locale.chars, errors |-> <<>>]

\* the characters of the modelled locales in the order of their code units
CodeUnits ==
    <<"-","A","C","E","G","H","L","N","S","U","X","_","a","e","h","n","r","s",
      "t","x","z">>

CodeOf(c) == CHOOSE k \in 1..Len(CodeUnits) : CodeUnits[k] = c

\* a < b as Array.prototype.sort compares strings
RECURSIVE LessString(_, _)
LessString(a, b) ==
    IF b = <<>> THEN FALSE
    ELSE IF a = <<>> THEN TRUE
    ELSE IF Head(a) = Head(b) THEN LessString(Tail(a), Tail(b))
    ELSE CodeOf(Head(a)) < CodeOf(Head(b))

\* one insertion of the sort
RECURSIVE InsertSorted(_, _)
InsertSorted(sorted, x) ==
    IF sorted = <<>> THEN <<x>>
    ELSE IF LessString(x, Head(sorted)) THEN <<x>> \o sorted
    ELSE <<Head(sorted)>> \o InsertSorted(Tail(sorted), x)

\* Array.from(detectedLocales), in insertion order
Unsorted(list) == list

\* Array.from(detectedLocales).sort()
RECURSIVE Sort(_)
Sort(list) ==
    IF list = <<>> THEN <<>>
    ELSE InsertSorted(Sort(SubSeq(list, 1, Len(list) - 1)), list[Len(list)])

\* list.length > 0 ? list : undefined
OrUndefined(list) == IF Len(list) > 0 THEN Object(list) ELSE NoObject

\* the values @@locale may have in a discovered file
LocaleValues ==
    {JsonAbsent, JsonNumber, JsonString(<<>>), JsonString(<<"e","n">>),
     JsonString(<<"a","r","-","E","G">>), JsonString(<<"x","x">>),
     JsonString(<<"z","h","_","H","a","n","s","_","C","N">>),
     JsonString(<<"e","n","_","U","S","_","x","_","x">>)}

\* the values @@context may have in a discovered file
ContextValues ==
    {JsonAbsent, JsonNumber, JsonString(<<"a","u","t","h">>),
     JsonString(<<"A","u","t","h">>), JsonString(<<"h","o","m","e","_","2">>)}

NoJson(kind) == [kind |-> kind, locale |-> JsonAbsent, context |-> JsonAbsent]

\* what a discovered file may hold
FileContents ==
    {NoJson("unreadable"), NoJson("badjson"), NoJson("null")}
    \cup {[kind |-> "object", locale |-> l, context |-> c] :
            l \in LocaleValues, c \in ContextValues}

ValidContent ==
    [kind |-> "object", locale |-> JsonString(<<"e","n">>),
     context |-> JsonString(<<"a","u","t","h">>)]

IntlName == <<"i","n","t","l","_","e","n",".","a","r","b">>
AppName == <<"a","p","p","_","e","n",".","a","r","b">>
IntlDotName == <<"i","n","t","l",".","a","r","b">>

\* the discovered files: base name and content
Files ==
    {[name |-> AppName, content |-> c] : c \in FileContents}
    \cup {[name |-> IntlName, content |-> c] : c \in {ValidContent, NoJson("badjson")}}
    \cup {[name |-> IntlDotName, content |-> ValidContent]}

InitScanner ==
    /\ arbFilePaths \in [ArbPaths -> Files]
    /\ spc = "idle"
    /\ si = 0
    /\ smodules = <<>>
    /\ detectedLocales = <<>>
    /\ validationErrors = <<>>
    /\ skippedFlutterIntlFiles = <<>>
    /\ flutterIntlDetected = FALSE
    /\ scanResult = NoScanResult
    /\ HelpersIdle
    /\ ParserIdle
    /\ ConfigIdle
    /\ WatcherIdle
    /\ GenerateIdle

\* scanModules is called and findArbFiles has resolved
ScanModulesCall ==
    /\ spc = "idle"
    /\ ~scanResult.defined
    /\ spc' = "loop"
    /\ si' = 1
    /\ smodules' = <<>>
    /\ detectedLocales' = <<>>
    /\ validationErrors' = <<>>
    /\ skippedFlutterIntlFiles' = <<>>
    /\ flutterIntlDetected' = FALSE
    /\ UNCHANGED <<arbFilePaths, scanResult, helperVars, parserVars,
                   generateVars, configVars,
                   watcherVars>>

\* the error lines of one file:  `${relativePath}: ${err}`
ErrorLines(path, errors) ==
    [k \in 1..Len(errors) |-> [path |-> path, err |-> errors[k]]]

\* one iteration of the loop over arbFilePaths
ScanFile ==
    /\ spc = "loop"
    /\ si <= Len(arbFilePaths)
    /\ LET file == arbFilePaths[si]
           validation == validateAndParseArbFile(file.content)
       IN IF isFlutterIntlFile(file.name)
          THEN /\ flutterIntlDetected' = TRUE
               /\ skippedFlutterIntlFiles' = Append(skippedFlutterIntlFiles, si)
               /\ UNCHANGED <<smodules, detectedLocales, validationErrors>>
          ELSE IF ~validation.isValid
          THEN /\ validationErrors' =
                     validationErrors \o ErrorLines(si, validation.errors)
               /\ UNCHANGED <<smodules, detectedLocales, flutterIntlDetected,
                              skippedFlutterIntlFiles>>
          ELSE /\ detectedLocales' = SetAdd(detectedLocales, validation.locale)
               /\ smodules' = PushArbFile(smodules,
                                          [path |-> si,
                                           locale |-> validation.locale,
                                           moduleName |-> validation.moduleName])
               /\ UNCHANGED <<validationErrors, flutterIntlDetected,
                              skippedFlutterIntlFiles>>
    /\ si' = si + 1
    /\ UNCHANGED <<arbFilePaths, spc, scanResult, helperVars, parserVars, generateVars,
                   configVars, watcherVars>>

\* scanModules returns the ScanResult
ScanModulesReturn ==
    /\ spc = "loop"
    /\ si > Len(arbFilePaths)
    /\ scanResult' =
          [defined |-> TRUE,
           modules |-> smodules,
           detectedLocales |-> Sort(detectedLocales),
           validationErrors |-> OrUndefined(validationErrors),
           flutterIntlDetected |-> flutterIntlDetected,
           skippedFlutterIntlFiles |-> OrUndefined(skippedFlutterIntlFiles)]
    /\ spc' = "idle"
    /\ UNCHANGED <<arbFilePaths, si, smodules, detectedLocales, validationErrors,
                   skippedFlutterIntlFiles, flutterIntlDetected, helperVars,
                   parserVars, generateVars, configVars, watcherVars>>

NextScanner ==
    \/ ScanModulesCall
    \/ ScanFile
    \/ ScanModulesReturn

SpecScanner == InitScanner /\ [][NextScanner]_vars

(***************************************************************************)
(* Watch mode: FileWatcher (src/src/file_watcher.ts) and the extension's   *)
(* startFileWatcher, stopFileWatcher and configuration listener.           *)
(***************************************************************************)
MaxFileEvents == 2
MaxStarts == 2

LibDir == <<"l","i","b","/","l","1","0","n","/">>
BuildDir == <<"b","u","i","l","d","/","l","1","0","n","/">>
TxtName == <<"a",".","t","x","t">>

NoContext == [kind |-> "object", locale |-> JsonString(<<"e","n">>),
              context |-> JsonAbsent]

\* the files chokidar may report: directory, base name and content on disk
WatchedFiles ==
    {[dir |-> LibDir, base |-> AppName, content |-> c] :
        c \in {ValidContent, NoContext, NoJson("badjson"), NoJson("null")}}
    \cup {[dir |-> LibDir, base |-> IntlName, content |-> ValidContent],
          [dir |-> BuildDir, base |-> AppName, content |-> ValidContent],
          [dir |-> LibDir, base |-> TxtName, content |-> NoJson("badjson")]}

WatchEvents == {"add", "change", "unlink"}

\* filePath.endsWith(w)
EndsWith(t, w) == Len(w) <= Len(t) /\ StartsWith(t, Len(t) - Len(w), w)

\* FileWatcher.isModularL10nFile
isModularL10nFile(file) ==
    IF file.content.kind # "object" THEN FALSE
    ELSE file.content.context.type # "undefined"

\* what handleChange does with an event: "ignored", a line explaining why the
\* file is skipped, or "File" when the event is accepted
handleChange(event, file) ==
    LET filePath == file.dir \o file.base
    IN IF ~EndsWith(filePath, <<".","a","r","b">>) THEN "ignored"
       ELSE IF isFlutterIntlFile(file.base) THEN "Skipping Flutter Intl file"
       ELSE IF \/ Includes(filePath, <<"g","e","n","e","r","a","t","e","d">>)
               \/ Includes(filePath, <<".","d","a","r","t","_","t","o","o","l">>)
               \/ Includes(filePath, <<"b","u","i","l","d">>)
            THEN "ignored"
       ELSE IF event # "unlink" /\ ~isModularL10nFile(file)
            THEN "Skipping non-Modular L10n file"
       ELSE "File"

StartedLine == [line |-> "File watcher started", event |-> ""]
RegeneratingLine == [line |-> "ARB file change detected, regenerating...",
                     event |-> ""]

\* the number of lines of the log that satisfy Test
CountLines(lines, Test(_)) ==
    Cardinality({k \in 1..Len(lines) : Test(lines[k])})

IsStartedLine(l) == l = StartedLine
IsConsoleLine(l) == l # StartedLine /\ l # RegeneratingLine

\* config.watchMode of getEffectiveConfig
WatchMode(p, st) == getEffectiveConfig(p, st).watchMode = Bool(TRUE)

\* the settings the user switches between
WatcherSettings ==
    {[NoSettings EXCEPT !.watchMode = w, !.className = c] :
        w \in {JsUndefined, Bool(FALSE)}, c \in {JsUndefined, Str("Tr")}}

\* the pubspec.yaml of the workspace
WatcherPubspecs ==
    {NoPubspec, [kind |-> "section", cfg |-> EmptyCfg],
     [kind |-> "section", cfg |-> [EmptyCfg EXCEPT !.watch_mode = Bool(FALSE)]]}

InitWatcher ==
    /\ pubspec \in WatcherPubspecs
    /\ settings \in WatcherSettings
    /\ effective = NoEffective
    /\ activated = FALSE
    /\ fileWatcher = "undefined"
    /\ debounceTimer = "null"
    /\ log = <<>>
    /\ deactivated = FALSE
    /\ watchers = 0
    /\ timers = 0
    /\ running = 0
    /\ caught = 0
    /\ HelpersIdle
    /\ ParserIdle
    /\ ScannerIdle
    /\ GenerateIdle

\* FileWatcher.stop on the extension's watcher, if there is one:
\* this.watcher.close() and clearTimeout(this.debounceTimer)
WatchersNotStopped == watchers
WatchersAfterStop ==
    IF fileWatcher = "started" THEN watchers - 1 ELSE watchers

TimersAfterStop ==
    IF fileWatcher = "started" /\ debounceTimer = "armed"
    THEN timers - 1 ELSE timers

\* startFileWatcher: stopFileWatcher(), new FileWatcher(...), start()
StartFileWatcher ==
    /\ fileWatcher' = "started"
    /\ debounceTimer' = "null"
    /\ watchers' = WatchersAfterStop + 1
    /\ timers' = TimersAfterStop
    /\ log' = Append(log, StartedLine)

\* stopFileWatcher: FileWatcher.stop() closes the watcher and clears the timer
StopFileWatcher ==
    /\ fileWatcher' = "undefined"
    /\ debounceTimer' = "null"
    /\ watchers' = WatchersAfterStop
    /\ timers' = TimersAfterStop
    /\ log' = log

\* activate(): the watcher is started if watch mode is enabled
Activate ==
    /\ ~activated
    /\ activated' = TRUE
    /\ IF WatchMode(pubspec, settings)
       THEN StartFileWatcher
       ELSE UNCHANGED <<fileWatcher, debounceTimer, log, watchers, timers>>
    /\ UNCHANGED <<deactivated, running, caught, configVars, helperVars,
                   parserVars, generateVars, scannerVars>>

\* if (this.debounceTimer) clearTimeout(this.debounceTimer); setTimeout(...)
TimersAfterEventNoClear == timers + 1
TimersAfterEvent ==
    IF debounceTimer = "armed" THEN timers ELSE timers + 1

\* chokidar reports an add, change or unlink: FileWatcher.handleChange
FileEvent ==
    /\ fileWatcher = "started"
    /\ CountLines(log, IsConsoleLine) < MaxFileEvents
    /\ \E event \in WatchEvents, file \in WatchedFiles :
        LET outcome == handleChange(event, file)
        IN IF outcome = "ignored"
           THEN UNCHANGED <<debounceTimer, timers, log>>
           ELSE IF outcome = "File"
           THEN /\ log' = Append(log, [line |-> "File", event |-> event])
                /\ debounceTimer' = "armed"
                /\ timers' = TimersAfterEvent
           ELSE /\ log' = Append(log, [line |-> outcome, event |-> ""])
                /\ UNCHANGED <<debounceTimer, timers>>
    /\ UNCHANGED <<activated, fileWatcher, deactivated, watchers, running,
                   caught, configVars, helperVars, parserVars, generateVars, scannerVars>>

\* a timeout expires: its callback calls onChange(), which writes the
\* "regenerating" line and awaits generateTranslations
DebounceExpires ==
    /\ timers > 0
    /\ timers' = timers - 1
    /\ debounceTimer' = IF timers = 1 /\ debounceTimer = "armed"
                        THEN "expired" ELSE debounceTimer
    /\ running' = running + 1
    /\ log' = Append(log, RegeneratingLine)
    /\ UNCHANGED <<activated, fileWatcher, deactivated, watchers, caught,
                   configVars, helperVars, parserVars, generateVars, scannerVars>>

\* the promise of an onChange call settles: await this.onChange() returns, or
\* throws into the catch that writes the error to the console
OnChangeSettles ==
    /\ running > 0
    /\ running' = running - 1
    /\ \E outcome \in {"resolved", "rejected"} :
        caught' = IF outcome = "rejected" THEN caught + 1 ELSE caught
    /\ UNCHANGED <<activated, fileWatcher, debounceTimer, log, deactivated,
                   watchers, timers, configVars, helperVars, parserVars, generateVars,
                   scannerVars>>

\* onDidChangeConfiguration for a change that affects modularL10n; the
\* listener is disposed with the extension's subscriptions
ConfigChange ==
    /\ activated
    /\ ~deactivated
    /\ CountLines(log, IsStartedLine) < MaxStarts
    /\ \E st \in WatcherSettings :
        /\ st # settings
        /\ settings' = st
        /\ IF WatchMode(pubspec, st)
           THEN StartFileWatcher
           ELSE StopFileWatcher
    /\ UNCHANGED <<activated, deactivated, running, caught, pubspec, effective,
                   helperVars, parserVars, generateVars, scannerVars>>

\* deactivate(): stopFileWatcher()
Deactivate ==
    /\ activated
    /\ ~deactivated
    /\ deactivated' = TRUE
    /\ StopFileWatcher
    /\ UNCHANGED <<activated, running, caught, configVars, helperVars,
                   parserVars, generateVars, scannerVars>>

NextWatcher ==
    \/ Activate
    \/ FileEvent
    \/ DebounceExpires
    \/ OnChangeSettles
    \/ ConfigChange
    \/ Deactivate

\* an armed timer expires after debounceMs unless it is cleared
SpecWatcher ==
    InitWatcher /\ [][NextWatcher]_vars /\ WF_vars(DebounceExpires)

(***************************************************************************)
(* generateTranslations of the extension: the Flutter Intl conflict checks *)
(* with their warnings, the scan, and the call of the Dart generator.      *)
(***************************************************************************)
MaxPrompts == 2

\* the characters of the strings the checks look into
Chars(s) ==
    CASE s = "en" -> <<"e","n">>
      [] s = "xx" -> <<"x","x">>
      [] s = "ar-EG" -> <<"a","r","-","E","G">>
      [] s = "lib/generated" -> <<"l","i","b","/","g","e","n","e","r","a","t","e","d">>
      [] s = "lib/generated/modular_l10n" ->
            <<"l","i","b","/","g","e","n","e","r","a","t","e","d","/",
              "m","o","d","u","l","a","r","_","l","1","0","n">>
      [] s = "lib/custom" -> <<"l","i","b","/","c","u","s","t","o","m">>
      [] OTHER -> <<>>

\* PubspecConfigReader.readFlutterIntlConfig
readFlutterIntlConfig(p, section) ==
    IF p.kind = "missing" \/ p.kind = "invalid" \/ ~section.present
    THEN [defined |-> FALSE, className |-> JsUndefined, outputDir |-> JsUndefined]
    ELSE [defined |-> TRUE,
          className |-> Or(section.class_name, Str("S")),
          outputDir |-> Or(section.output_dir, Str("lib/generated"))]

\* config.className === flutterIntlClassName
ClassNameCollides(config, flutterIntlConfig) ==
    /\ flutterIntlConfig.defined
    /\ config.className = Or(flutterIntlConfig.className, Str("S"))

\* the output path of the extension overlaps with Flutter Intl's
OutputPathOverlaps(config, flutterIntlConfig) ==
    /\ flutterIntlConfig.defined
    /\ LET flutterIntlOutput ==
                Chars(Or(flutterIntlConfig.outputDir, Str("lib/generated")).s)
           ourOutput == Chars(config.outputPath.s)
       IN \/ ourOutput = flutterIntlOutput
          \/ StartsWith(ourOutput, 0, flutterIntlOutput \o <<"/">>)
          \/ StartsWith(flutterIntlOutput, 0, ourOutput \o <<"/">>)

\* where generateTranslations goes after the class name check
AfterClassNameCheck(config, flutterIntlConfig) ==
    IF OutputPathOverlaps(config, flutterIntlConfig) THEN "pathPrompt" ELSE "scan"

\* the default locale is always the configured one
DefaultLocaleConfigured(configDefaultLocale, locales) == configDefaultLocale

\* detectedLocales.includes(configDefaultLocale) ? configDefaultLocale
\*                                                : detectedLocales[0]
DefaultLocale(configDefaultLocale, locales) ==
    IF configDefaultLocale \in Range(locales)
    THEN configDefaultLocale ELSE locales[1]

\* the discovered files of the generation runs
GenerateFiles ==
    {[name |-> AppName, content |-> c] :
        c \in {ValidContent,
               [kind |-> "object", locale |-> JsonString(<<"a","r","-","E","G">>),
                context |-> JsonString(<<"a","u","t","h">>)],
               [kind |-> "object", locale |-> JsonString(<<"a","r","-","E","G">>),
                context |-> JsonString(<<"h","o","m","e","_","2">>)],
               NoJson("badjson")}}
    \cup {[name |-> IntlName, content |-> ValidContent]}

\* pubspec.yaml: its modular_l10n section and its flutter_intl section
GeneratePubspecs ==
    {NoPubspec, [kind |-> "nosection", cfg |-> EmptyCfg],
     [kind |-> "section", cfg |-> [EmptyCfg EXCEPT !.class_name = Str("S")]]}

FlutterIntlSections ==
    {NoFlutterIntl,
     [present |-> TRUE, class_name |-> JsUndefined,
      output_dir |-> Str("lib/custom")],
     [present |-> TRUE, class_name |-> Str("ML"), output_dir |-> JsUndefined]}

GenerateSettings ==
    {[NoSettings EXCEPT !.className = c, !.defaultLocale = l, !.outputPath = o] :
        c \in {JsUndefined, Str("S")},
        l \in {JsUndefined, Str("xx")},
        o \in {JsUndefined, Str("lib/custom")}}

InitGenerate ==
    /\ arbFilePaths \in [ArbPaths -> GenerateFiles]
    /\ spc = "idle"
    /\ si = 0
    /\ smodules = <<>>
    /\ detectedLocales = <<>>
    /\ validationErrors = <<>>
    /\ skippedFlutterIntlFiles = <<>>
    /\ flutterIntlDetected = FALSE
    /\ scanResult = NoScanResult
    /\ pubspec \in GeneratePubspecs
    /\ settings \in GenerateSettings
    /\ effective = NoEffective
    /\ flutterIntl \in FlutterIntlSections
    /\ gpc = "idle"
    /\ prompts = 0
    /\ changedToML = FALSE
    /\ generator = <<>>
    /\ HelpersIdle
    /\ ParserIdle
    /\ WatcherIdle

\* generateTranslations is entered, by a command or by its own restart: the
\* configuration is read and the class name is compared with Flutter Intl's
GenerateTranslations ==
    /\ gpc \in {"idle", "restart"}
    /\ LET config == getEffectiveConfig(pubspec, settings)
           flutterIntlConfig == readFlutterIntlConfig(pubspec, flutterIntl)
       IN /\ effective' = [defined |-> TRUE, config |-> config]
          /\ IF ClassNameCollides(config, flutterIntlConfig)
             THEN /\ prompts < MaxPrompts
                  /\ gpc' = "classPrompt"
                  /\ prompts' = prompts + 1
             ELSE /\ gpc' = AfterClassNameCheck(config, flutterIntlConfig)
                  /\ gpc' = "pathPrompt" => prompts < MaxPrompts
                  /\ prompts' = IF gpc' = "pathPrompt" THEN prompts + 1 ELSE prompts
    /\ UNCHANGED <<pubspec, settings, flutterIntl, changedToML, generator,
                   scannerVars, helperVars, parserVars, watcherVars>>

\* the user answers the class name warning
AnswerClassPrompt ==
    /\ gpc = "classPrompt"
    /\ \E action \in {"Change to ML", "Generate Anyway", "dismissed"} :
        IF action = "Change to ML"
        THEN /\ settings' = [settings EXCEPT !.className = Str("ML")]
             /\ changedToML' = TRUE
             /\ gpc' = "restart"
             /\ UNCHANGED prompts
        ELSE IF action = "Generate Anyway"
        THEN /\ gpc' = AfterClassNameCheck(
                            effective.config,
                            readFlutterIntlConfig(pubspec, flutterIntl))
             /\ gpc' = "pathPrompt" => prompts < MaxPrompts
             /\ prompts' = IF gpc' = "pathPrompt" THEN prompts + 1 ELSE prompts
             /\ UNCHANGED <<settings, changedToML>>
        ELSE /\ gpc' = "done"
             /\ UNCHANGED <<settings, changedToML, prompts>>
    /\ UNCHANGED <<pubspec, effective, flutterIntl, generator, scannerVars,
                   helperVars, parserVars, watcherVars>>

\* the user answers the output path warning
AnswerPathPrompt ==
    /\ gpc = "pathPrompt"
    /\ \E action \in {"Change", "Generate Anyway", "dismissed"} :
        IF action = "Change"
        THEN /\ settings' = [settings EXCEPT
                                !.outputPath = Str("lib/generated/modular_l10n")]
             /\ gpc' = "restart"
        ELSE /\ gpc' = IF action = "Generate Anyway" THEN "scan" ELSE "done"
             /\ UNCHANGED settings
    /\ UNCHANGED <<pubspec, effective, flutterIntl, prompts, changedToML,
                   generator, scannerVars, helperVars, parserVars, watcherVars>>

\* await scanner.scanModules()
GenerateScan ==
    /\ gpc = "scan"
    /\ NextScanner

\* the rest of the try block: the two early returns, parseModules, the
\* choice of the default locale and generator.generate(parsedModules)
GenerateDart ==
    /\ gpc = "scan"
    /\ scanResult.defined
    /\ gpc' = "done"
    /\ IF Len(scanResult.modules) = 0 \/ Len(scanResult.detectedLocales) = 0
       THEN UNCHANGED generator
       ELSE \E parsed \in {"resolved", "rejected"} :
            IF parsed = "rejected" THEN UNCHANGED generator
            ELSE generator' =
                    Append(generator,
                           [className |-> effective.config.className,
                            outputPath |-> effective.config.outputPath,
                            defaultLocale |->
                                DefaultLocale(
                                    Chars(effective.config.defaultLocale.s),
                                    scanResult.detectedLocales),
                            supportedLocales |-> scanResult.detectedLocales,
                            modules |-> scanResult.modules])
    /\ UNCHANGED <<flutterIntl, prompts, changedToML, configVars, scannerVars,
                   helperVars, parserVars, watcherVars>>

NextGenerate ==
    \/ GenerateTranslations
    \/ AnswerClassPrompt
    \/ AnswerPathPrompt
    \/ GenerateScan
    \/ GenerateDart

SpecGenerate == InitGenerate /\ [][NextGenerate]_vars

(***************************************************************************)
(* Properties of the static helpers, checked under SpecIcu.                *)
(***************************************************************************)
Called(name) == call = name

\* Every bare "{w}" of the message is a reference to a control variable or
\* the one-word literal body of a case.
LiteralBodiesOnly(t) ==
    /\ HeaderStarts(t) # {}
    /\ Balanced(t)
    /\ \A ij \in BarePlaceholders(t) :
        \/ Substring(t, ij[1] + 1, ij[2]) \in ControlVariables(t)
        \/ OpensCaseBody(t, ij[1])

\* C1: for an ICU message whose case bodies hold only literal text and bare
\* references to its own control variables, extractPlaceholders returns
\* exactly the control variables; the literal words of the case bodies
\* (none, He, They) are not reported.
C1_OnlyControlVariables ==
    Called("extractPlaceholders") /\ LiteralBodiesOnly(text)
        => Range(ret) = ControlVariables(text)

\* C2: for a message without ICU header, extractPlaceholders returns exactly
\* the names w such that "{w}" occurs in it; without any '{' the result is
\* empty and hasIcuSyntax is false; "Hello {name}" yields {name}.
C2_PlainPlaceholders ==
    /\ Called("extractPlaceholders") /\ HeaderStarts(text) = {}
        => Range(ret) = BareNames(text)
    /\ Called("extractPlaceholders") /\ "{" \notin Range(text) => ret = <<>>
    /\ Called("hasIcuSyntax") /\ "{" \notin Range(text) => ret = FALSE
    /\ Called("extractPlaceholders") /\ text = ExHello
        => ret = << <<"n","a","m","e">> >>

\* extractPlaceholders was called on a message without header that holds
\* two different placeholders next to each other
C2_Witness ==
    /\ Called("extractPlaceholders")
    /\ HeaderStarts(text) = {}
    /\ \E i \in 0..Len(text), j \in 0..Len(text), k \in 0..Len(text) :
        /\ BarePlaceholderAt(text, i, j)
        /\ BarePlaceholderAt(text, j + 1, k)
        /\ Substring(text, i + 1, j) # Substring(text, j + 2, k)
    /\ Len(ret) = 2

\* C3: isCompoundMessage is true exactly when the message holds two or more
\* top-level ICU expressions; two top-level expressions give two segments,
\* and a single top-level expression gives one segment, whatever is nested
\* in its case bodies.
C3_CompoundIffTopLevel ==
    /\ Called("isCompoundMessage") /\ Balanced(text)
        => (ret <=> Cardinality(TopLevelHeaders(text)) >= 2)
    /\ Called("getIcuSegments") /\ Balanced(text)
        => /\ Cardinality(TopLevelHeaders(text)) = 2 => Len(ret) = 2
           /\ Cardinality(TopLevelHeaders(text)) = 1 => Len(ret) = 1

\* C4: on a text with ICU syntax validateIcuSyntax counts '{' minus '}' from
\* left to right: a negative count after some character gives 'Unmatched
\* closing brace', otherwise a nonzero final count gives 'Unmatched opening
\* brace'; valid:true implies balanced braces.
C4_BraceBalance ==
    Called("validateIcuSyntax") /\ HeaderStarts(text) # {}
        => /\ (\E n \in 1..Len(text) : BraceBalance(text, n) < 0)
                => ret = [valid |-> FALSE, error |-> "Unmatched closing brace"]
           /\ ((\A n \in 1..Len(text) : BraceBalance(text, n) >= 0)
                    /\ BraceBalance(text, Len(text)) # 0)
                => ret = [valid |-> FALSE, error |-> "Unmatched opening brace"]
           /\ ret.valid => Balanced(text)

\* validateIcuSyntax was called on an ICU message whose count goes negative
\* although the text has as many '{' as '}'
C4_Witness ==
    /\ Called("validateIcuSyntax")
    /\ HeaderStarts(text) # {}
    /\ \E n \in 1..Len(text) : BraceBalance(text, n) < 0
    /\ BraceBalance(text, Len(text)) = 0
    /\ ret.error = "Unmatched closing brace"

\* the type of the leftmost ICU header
FirstType(t) == HeaderMatch(t, Min(HeaderStarts(t))).type

\* C5: on a brace-balanced text with ICU syntax validateIcuSyntax fails with
\* the missing-'other' error of the type exactly when the type of the first
\* header is plural or selectordinal and "other{" occurs nowhere; when the
\* first type is select the result is valid:true.
C5_MissingOther ==
    Called("validateIcuSyntax") /\ HeaderStarts(text) # {} /\ Balanced(text)
        => LET other == \E i \in 0..Len(text) :
                            StartsWith(text, i, <<"o","t","h","e","r","{">>)
               missing == FirstType(text) \in {"plural", "selectordinal"} /\ ~other
           IN /\ missing /\ FirstType(text) = "plural"
                    => ret = [valid |-> FALSE,
                              error |-> "ICU plural message missing required 'other' case"]
              /\ missing /\ FirstType(text) = "selectordinal"
                    => ret = [valid |-> FALSE,
                              error |-> "ICU selectordinal message missing required 'other' case"]
              /\ ~missing => ret = [valid |-> TRUE, error |-> Undefined]
              /\ FirstType(text) = "select" => ret.valid

\* validateIcuSyntax rejected a balanced selectordinal message without other
C5_Witness ==
    /\ Called("validateIcuSyntax")
    /\ HeaderStarts(text) # {}
    /\ Balanced(text)
    /\ FirstType(text) = "selectordinal"
    /\ ~ret.valid

\* C6: getIcuType returns the type of the leftmost header, whatever headers
\* follow; it is the type of the first segment of getIcuSegments when there
\* is one, and it is null exactly when hasIcuSyntax is false.
C6_FirstHeaderType ==
    Called("getIcuType")
        => /\ HeaderStarts(text) # {} => ret = FirstType(text)
           /\ getIcuSegments(text) # <<>> => ret = getIcuSegments(text)[1].type
           /\ (ret = Null) <=> ~hasIcuSyntax(text)
           /\ HeaderStarts(text) # {}
                => \A f \in Fragments : getIcuType(text \o f) = ret

\* getIcuType was called on a message whose last header has another type
\* than its first
C6_Witness ==
    /\ Called("getIcuType")
    /\ HeaderStarts(text) # {}
    /\ HeaderMatch(text, Max(HeaderStarts(text))).type # FirstType(text)
    /\ ret = FirstType(text)

\* C10: when the metadata has at least one entry getOrderedPlaceholders
\* returns its names in their declared order, whatever the text; when the
\* metadata is absent or empty it returns extractPlaceholders(text).
C10_MetadataOrder ==
    Called("getOrderedPlaceholders")
        => /\ metadata.defined /\ Len(metadata.entries) >= 1
                => ret = [k \in 1..Len(metadata.entries) |-> metadata.entries[k][1]]
           /\ ~metadata.defined \/ Len(metadata.entries) = 0
                => ret = extractPlaceholders(text)
           /\ metadata.defined /\ metadata.entries = <<<<NameB, Info>>, <<NameA, Info>>>>
                => ret = <<NameB, NameA>>

\* getOrderedPlaceholders returned the metadata's b, a for a text whose own
\* placeholders are others
C10_Witness ==
    /\ Called("getOrderedPlaceholders")
    /\ metadata.defined
    /\ metadata.entries = <<<<NameB, Info>>, <<NameA, Info>>>>
    /\ extractPlaceholders(text) # <<>>
    /\ ret = <<NameB, NameA>>

(***************************************************************************)
(* Properties of the aggregation, checked under SpecParser.                *)
(***************************************************************************)
\* the document of arbFile is read as an object that has the key
DocumentDefines(arbFile, key) ==
    /\ disk[arbFile.path].kind = "object"
    /\ \E n \in 1..Len(disk[arbFile.path].entries) :
            disk[arbFile.path].entries[n][1] = key

HasProperty(obj, name) == \E n \in 1..Len(obj) : obj[n][1] = name

\* C7: two runs of parseModules on the same unchanged modules give the same
\* output: the same modules, keys, translations, descriptions and
\* placeholders, in the same order.
C7_SameOutputTwice ==
    \A i \in 1..Len(outputs), j \in 1..Len(outputs) : outputs[i] = outputs[j]

\* two runs completed on two modules that both have keys
C7_Witness ==
    /\ Len(outputs) = 2
    /\ outputs[1].status = "resolved"
    /\ Len(outputs[1].value) = 2
    /\ \A n \in 1..2 : outputs[1].value[n].keys # <<>>
    /\ outputs[1].value[1].keys # outputs[1].value[2].keys

\* the modules aggregated so far, each with the Module it was made from
Aggregated == {<<parsedModules[n], modules[n]>> : n \in 1..Len(parsedModules)}

\* C8: after a module is aggregated, a key's translations have an entry for
\* a locale exactly when a parsed document of the module tagged with that
\* locale contains the key.
C8_LocaleComplete ==
    \A pm \in Aggregated :
        \A n \in 1..Len(pm[1].keys), L \in Locales :
            HasProperty(pm[1].keys[n].translations, L)
                <=> \E f \in 1..Len(pm[2].arbFiles) :
                        /\ pm[2].arbFiles[f].locale = L
                        /\ DocumentDefines(pm[2].arbFiles[f], pm[1].keys[n].key)

\* a module of two documents of different locales was aggregated, and a key
\* that only one of them contains has a translation for that locale alone
C8_Witness ==
    \E pm \in Aggregated :
        /\ Len(pm[2].arbFiles) = 2
        /\ pm[2].arbFiles[1].locale # pm[2].arbFiles[2].locale
        /\ \A f \in 1..2 : disk[pm[2].arbFiles[f].path].kind = "object"
        /\ \E n \in 1..Len(pm[1].keys) :
            /\ DocumentDefines(pm[2].arbFiles[1], pm[1].keys[n].key)
            /\ ~DocumentDefines(pm[2].arbFiles[2], pm[1].keys[n].key)
            /\ Len(pm[1].keys[n].translations) = 1

\* the documents of the module being parsed that were processed so far
Processed == 1..(fi - 1)

\* the first processed document that defines the key
FirstDefining(key) ==
    modules[mi].arbFiles[
        Min({f \in Processed : DocumentDefines(modules[mi].arbFiles[f], key)})]

\* the "@key" entry of the document of arbFile
SiblingOf(arbFile, key) == Lookup(disk[arbFile.path].entries, <<"@">> \o key)

\* C9: while a module is aggregated, the description and placeholders of a
\* key are those of the "@key" entry of the first processed document that
\* defines the key (unset when it has none), whatever later documents
\* carry.
C9_MetadataOfFirstDocument ==
    pc = "files"
        => \A n \in 1..Len(keysMap) :
            LET first == FirstDefining(keysMap[n].key)
                sibling == SiblingOf(first, keysMap[n].key)
            IN /\ keysMap[n].description =
                    (IF sibling.found THEN sibling.value.description ELSE Undefined)
               /\ keysMap[n].placeholders.defined =
                    (sibling.found /\ sibling.value.placeholders.defined)
               /\ sibling.found /\ sibling.value.placeholders.defined
                    => ObjectKeys(keysMap[n].placeholders)
                            = ObjectKeys(sibling.value.placeholders)

\* two documents were processed: the first defines a key without metadata,
\* the second defines it with a description, and the key has none
C9_Witness ==
    /\ pc = "files"
    /\ fi = 3
    /\ \E n \in 1..Len(keysMap) :
        /\ DocumentDefines(modules[mi].arbFiles[1], keysMap[n].key)
        /\ ~SiblingOf(modules[mi].arbFiles[1], keysMap[n].key).found
        /\ DocumentDefines(modules[mi].arbFiles[2], keysMap[n].key)
        /\ SiblingOf(modules[mi].arbFiles[2], keysMap[n].key).found
        /\ SiblingOf(modules[mi].arbFiles[2], keysMap[n].key).value.description
                # Undefined
        /\ keysMap[n].description = Undefined

(***************************************************************************)
(* Properties of the effective configuration, checked under SpecConfig.    *)
(***************************************************************************)
\* the value the modular_l10n section of pubspec.yaml gives a setting
PubspecValue(name) ==
    CASE name = "className" -> pubspec.cfg.class_name
      [] name = "outputPath" -> pubspec.cfg.output_dir
      [] name = "defaultLocale" ->
            IF pubspec.cfg.default_locale.type # "undefined"
            THEN pubspec.cfg.default_locale
            ELSE pubspec.cfg.main_locale
      [] name = "arbFilePattern" -> pubspec.cfg.arb_dir_pattern
      [] name = "generateCombinedArb" -> pubspec.cfg.generate_combined_arb
      [] name = "useDeferredLoading" -> pubspec.cfg.use_deferred_loading
      [] name = "watchMode" -> pubspec.cfg.watch_mode

PubspecSets(name) ==
    pubspec.kind = "section" /\ PubspecValue(name).type # "undefined"

SettingsSet(name) == settings[name].type # "undefined"

\* the built-in default of a setting
DefaultOf(name) ==
    CASE name = "className" -> Str("ML")
      [] name = "outputPath" -> Str("lib/generated/modular_l10n")
      [] name = "defaultLocale" -> Str("en")
      [] name = "arbFilePattern" -> Str("**/l10n/*.arb")
      [] name = "generateCombinedArb" -> Bool(TRUE)
      [] name = "useDeferredLoading" -> Bool(FALSE)
      [] name = "watchMode" -> Bool(TRUE)

\* C11: every setting of the effective configuration is the value the
\* modular_l10n section of pubspec.yaml sets for it, otherwise the value the
\* VS Code settings set for it, otherwise the built-in default.
C11_PerSettingPriority ==
    effective.defined =>
        \A name \in SettingNames :
            effective.config[name] =
                IF PubspecSets(name) THEN PubspecValue(name)
                ELSE IF SettingsSet(name) THEN settings[name]
                ELSE DefaultOf(name)

(***************************************************************************)
(* Properties of ModuleScanner.scanModules, checked under SpecScanner.     *)
(***************************************************************************)
\* the file name has the form intl_*.arb
NamedIntl(file) ==
    /\ Len(file.name) >= 9
    /\ SubSeq(file.name, 1, 5) = <<"i","n","t","l","_">>
    /\ SubSeq(file.name, Len(file.name) - 3, Len(file.name)) = <<".","a","r","b">>

\* the modelled @@locale strings that name a locale
KnownLocaleStrings ==
    {<<"e","n">>, <<"a","r","-","E","G">>,
     <<"z","h","_","H","a","n","s","_","C","N">>}

\* the modelled @@context strings that are snake_case
SnakeCaseStrings == {<<"a","u","t","h">>, <<"h","o","m","e","_","2">>}

\* the file is a Modular L10n file
WellFormed(file) ==
    /\ ~NamedIntl(file)
    /\ file.content.kind = "object"
    /\ file.content.locale.type = "string"
    /\ file.content.locale.chars \in KnownLocaleStrings
    /\ file.content.context.type = "string"
    /\ file.content.context.chars \in SnakeCaseStrings

\* the discovered file number i is an arbFile of module number m of the result
InModule(i, m) ==
    \E k \in 1..Len(scanResult.modules[m].arbFiles) :
        scanResult.modules[m].arbFiles[k].path = i

\* C12: when scanModules has returned, a discovered file is in a module only
\* if it is not named intl_*.arb and holds a valid string @@locale and a
\* valid snake_case string @@context (and then it is in the module of its
\* @@context, under its @@locale); every other file is in no module, the
\* detected locales are those of the files in modules, every other file not
\* named intl_*.arb has a validation error naming it, and the files named
\* intl_*.arb are listed as skipped.
C12_OnlyWellFormedFilesInModules ==
    scanResult.defined =>
        /\ \A i \in 1..Len(arbFilePaths) :
            LET file == arbFilePaths[i]
            IN /\ (\E m \in 1..Len(scanResult.modules) : InModule(i, m))
                      <=> WellFormed(file)
               /\ \A m \in 1..Len(scanResult.modules) :
                      InModule(i, m) =>
                          /\ scanResult.modules[m].name = file.content.context.chars
                          /\ \E k \in 1..Len(scanResult.modules[m].arbFiles) :
                              scanResult.modules[m].arbFiles[k] =
                                  [path |-> i,
                                   locale |-> file.content.locale.chars,
                                   moduleName |-> file.content.context.chars]
               /\ (~WellFormed(file) /\ ~NamedIntl(file)) =>
                      /\ scanResult.validationErrors.defined
                      /\ \E k \in 1..Len(scanResult.validationErrors.entries) :
                             scanResult.validationErrors.entries[k].path = i
               /\ NamedIntl(file) =>
                      /\ scanResult.flutterIntlDetected
                      /\ scanResult.skippedFlutterIntlFiles.defined
                      /\ i \in Range(scanResult.skippedFlutterIntlFiles.entries)
        /\ Range(scanResult.detectedLocales) =
              {arbFilePaths[i].content.locale.chars :
                  i \in {j \in 1..Len(arbFilePaths) : WellFormed(arbFilePaths[j])}}

\* a scan has returned that put one file into a module, reported another with
\* an unknown locale and kept its locale out of the detected ones
C12_Witness ==
    /\ scanResult.defined
    /\ Len(scanResult.modules) = 1
    /\ \E i, j \in 1..Len(arbFilePaths) :
        /\ InModule(i, 1)
        /\ arbFilePaths[j].content.locale = JsonString(<<"x","x">>)
        /\ arbFilePaths[j].content.context = JsonString(<<"a","u","t","h">>)
        /\ ~NamedIntl(arbFilePaths[j])
        /\ scanResult.validationErrors.defined
        /\ <<"x","x">> \notin Range(scanResult.detectedLocales)

(***************************************************************************)
(* Properties of watch mode, checked under SpecWatcher.                    *)
(***************************************************************************)
\* the index of the last line of the log that satisfies Test, 0 if none
LastLine(Test(_)) ==
    IF \E k \in 1..Len(log) : Test(log[k])
    THEN CHOOSE k \in 1..Len(log) :
            Test(log[k]) /\ \A j \in (k + 1)..Len(log) : ~Test(log[j])
    ELSE 0

IsFileLine(l) == l.line = "File"
IsRegeneratingLine(l) == l = RegeneratingLine

\* an accepted event has not been followed by an invocation of onChange
Pending == LastLine(IsFileLine) > LastLine(IsRegeneratingLine)

\* watch mode is enabled: the setting is on and the extension is not deactivated
WatchModeOn == WatchMode(pubspec, settings) /\ ~deactivated

\* C13: while watch mode is enabled and stays enabled, every accepted
\* add/change/unlink event is eventually followed by an invocation of the
\* regeneration callback.
C13_AcceptedEventRegenerates == [](Pending /\ []WatchModeOn => <>~Pending)

(***************************************************************************)
(* Further properties of the static helpers, checked under SpecIcu.        *)
(***************************************************************************)
\* the index i lies inside the block the header at h opens
InsideBlockOf(t, h, i) ==
    /\ h < i
    /\ \A n \in (h + 1)..i : BraceBalance(t, n) > BraceBalance(t, h)

OutsideTopLevelBlocks(t, i) ==
    \A h \in TopLevelHeaders(t) : ~InsideBlockOf(t, h, i)

\* C15: the second pass of extractPlaceholders skips every top-level ICU
\* block from the '{' of its header to the index after its matching '}', so
\* it examines no character inside such a block: every name of the result is
\* a control variable (first pass) or a bare placeholder that occurs outside
\* the top-level ICU blocks.
C15_TopLevelBlocksSkipped ==
    Called("extractPlaceholders") =>
        \A name \in Range(ret) :
            \/ name \in ControlVariables(text)
            \/ \E ij \in BarePlaceholders(text) :
                /\ Substring(text, ij[1] + 1, ij[2]) = name
                /\ OutsideTopLevelBlocks(text, ij[1])

\* raw runs from a '{' through the '}' that matches it
OneBlock(raw) ==
    /\ Len(raw) >= 2
    /\ raw[1] = "{"
    /\ raw[Len(raw)] = "}"
    /\ BraceBalance(raw, Len(raw)) = 0
    /\ \A n \in 1..(Len(raw) - 1) : BraceBalance(raw, n) >= 1

\* C16: for every text, balanced or not, every segment s of getIcuSegments
\* has 0 <= s.start < s.end <= text.length, s.raw = text[s.start .. s.end),
\* and s.raw is brace-balanced: it begins with the '{' of the ICU header and
\* ends with the '}' that matches it.
C16_SegmentsWellFormed ==
    Called("getIcuSegments") =>
        \A k \in 1..Len(ret) :
            /\ 0 <= ret[k].start
            /\ ret[k].start < ret[k].end
            /\ ret[k].end <= Len(text)
            /\ ret[k].raw = Substring(text, ret[k].start, ret[k].end)
            /\ HeaderMatch(text, ret[k].start).ok
            /\ OneBlock(ret[k].raw)

\* C17: the segments of getIcuSegments are in strictly increasing order of
\* start and do not overlap: each segment starts at or after the end of the
\* one before it, also when an ICU expression is nested in a case body of
\* another.
C17_SegmentsDisjoint ==
    Called("getIcuSegments") =>
        \A k \in 1..(Len(ret) - 1) :
            /\ ret[k].start < ret[k + 1].start
            /\ ret[k].end <= ret[k + 1].start

\* the results validateIcuSyntax may return
ValidationResults ==
    {[valid |-> TRUE, error |-> Undefined]}
    \cup {[valid |-> FALSE, error |-> e] :
            e \in {"Unmatched closing brace", "Unmatched opening brace",
                   "ICU plural message missing required 'other' case",
                   "ICU selectordinal message missing required 'other' case"}}

\* C18: validateIcuSyntax always returns a structured {valid, error} result,
\* and for a text on which hasIcuSyntax is false (no ICU header) the result
\* is {valid: true} without error, even when the braces are unbalanced.
C18_PlainStringsValid ==
    /\ Called("validateIcuSyntax") =>
        /\ ret \in ValidationResults
        /\ HeaderStarts(text) = {} => ret = [valid |-> TRUE, error |-> Undefined]
    /\ Called("hasIcuSyntax") => (ret <=> HeaderStarts(text) # {})

\* validateIcuSyntax accepted a text without ICU header whose braces are
\* unbalanced
C18_Witness ==
    /\ Called("validateIcuSyntax")
    /\ HeaderStarts(text) = {}
    /\ "{" \in Range(text)
    /\ ~Balanced(text)
    /\ ret = [valid |-> TRUE, error |-> Undefined]

(***************************************************************************)
(* Further properties of parseModules, checked under SpecParser.           *)
(***************************************************************************)
\* the keys parseModule builds from the arbFiles taken in the given order
RECURSIVE AggregateInOrder(_, _)
AggregateInOrder(arbFiles, km) ==
    IF arbFiles = <<>> THEN km
    ELSE AggregateInOrder(Tail(arbFiles),
                          MergeEntries(km,
                                       readArbFile(disk, Head(arbFiles).path).entries,
                                       Head(arbFiles).locale, 1))

\* the rearrangements of a list
Rearrangements(list) ==
    {[k \in 1..Len(list) |-> list[p[k]]] :
        p \in {q \in [1..Len(list) -> 1..Len(list)] :
                \A a, b \in 1..Len(list) : a # b => q[a] # q[b]}}

\* the description and placeholders of every key
MetadataOfKeys(km) ==
    {[key |-> km[n].key, description |-> km[n].description,
      placeholders |-> km[n].placeholders] : n \in 1..Len(km)}

\* parseModule has processed every document of the module
ModuleAggregated == pc = "files" /\ fi > Len(modules[mi].arbFiles)

\* C19: the description and placeholders of every key of a module are the
\* same for every order in which the module's locale files are listed in
\* module.arbFiles.
C19_OrderIndependentMetadata ==
    ModuleAggregated =>
        \A arbFiles \in Rearrangements(modules[mi].arbFiles) :
            MetadataOfKeys(AggregateInOrder(arbFiles, <<>>))
                = MetadataOfKeys(keysMap)

\* the position <<document, entry>> at which the key first occurs among the
\* processed documents of the module being parsed
FirstOccurrence(key) ==
    LET f == Min({g \in Processed :
                    DocumentDefines(modules[mi].arbFiles[g], key)})
        entries == disk[modules[mi].arbFiles[f].path].entries
    IN <<f, Min({n \in 1..Len(entries) : entries[n][1] = key})>>

Before(a, b) == a[1] < b[1] \/ (a[1] = b[1] /\ a[2] < b[2])

\* the key names of the processed documents that do not start with '@'
DefinedKeys ==
    {key \in UNION {Range([n \in 1..Len(disk[modules[mi].arbFiles[f].path].entries)
                            |-> disk[modules[mi].arbFiles[f].path].entries[n][1]]) :
                        f \in {g \in Processed :
                                disk[modules[mi].arbFiles[g].path].kind = "object"}} :
        key[1] # "@"}

\* one record per defined key, in order of first occurrence
KeysInFirstOccurrenceOrder ==
    /\ {keysMap[n].key : n \in 1..Len(keysMap)} = DefinedKeys
    /\ \A a, b \in 1..Len(keysMap) :
        a < b => Before(FirstOccurrence(keysMap[a].key),
                        FirstOccurrence(keysMap[b].key))

\* the keys created so far stay where they are
KeysKept ==
    /\ Len(keysMap') >= Len(keysMap)
    /\ \A n \in 1..Len(keysMap) : keysMap'[n].key = keysMap[n].key

\* C20: while a module is aggregated, its TranslationKeys are exactly one
\* record for each key name that does not start with '@' and occurs in a
\* successfully parsed document processed so far, in order of first
\* occurrence (so no "@key" or "@@key" is ever a TranslationKey), and a key
\* once created is not removed by a later document of the pass.
C20_KeysOfModule ==
    /\ [](pc = "files" => KeysInFirstOccurrenceOrder)
    /\ [][pc = "files" /\ pc' = "files" => KeysKept]_vars

\* two documents of a module were processed: the second adds a key after the
\* keys of the first, and both carry "@" entries
C20_Witness ==
    /\ pc = "files"
    /\ fi = 3
    /\ Len(keysMap) = 2
    /\ DocumentDefines(modules[mi].arbFiles[1], keysMap[1].key)
    /\ ~DocumentDefines(modules[mi].arbFiles[1], keysMap[2].key)
    /\ DocumentDefines(modules[mi].arbFiles[2], keysMap[2].key)
    /\ DocumentDefines(modules[mi].arbFiles[2], <<"@">> \o keysMap[2].key)

(***************************************************************************)
(* C21.  A document that cannot be read, or that is not a JSON object,     *)
(* contributes no key and no translation and does not abort the            *)
(* aggregation: every call of parseModules resolves, with one ParsedModule *)
(* per module, in which no translation comes from such a document and      *)
(* every translation key of every other document of the module is present. *)
(***************************************************************************)
BadDocument(f) == disk[f].kind # "object"

TranslationsFrom(keys, f) ==
    {<<q, t>> \in (1..Len(keys)) \X (1..NumFiles + 1) :
        /\ t <= Len(keys[q].translations)
        /\ keys[q].translations[t][2][2] = f}

C21_BadDocumentNotFatal ==
    \A n \in 1..Len(outputs) :
        /\ outputs[n].status = "resolved"
        /\ Len(outputs[n].value) = Len(modules)
        /\ \A m \in 1..Len(modules) : \A k \in 1..Len(modules[m].arbFiles) :
            LET f == modules[m].arbFiles[k].path
                keys == outputs[n].value[m].keys
            IN IF BadDocument(f)
               THEN TranslationsFrom(keys, f) = {}
               ELSE \A e \in 1..Len(disk[f].entries) :
                        \/ IsMetadataKey(disk[f].entries[e][1])
                        \/ Has(keys, disk[f].entries[e][1])

(***************************************************************************)
(* C22.  A value that is not a string in a translation slot is not stored  *)
(* in translations, neither as it is nor coerced: in every output of       *)
(* parseModules every stored translation is one of the strings of the      *)
(* documents, and the keys whose values are strings are aggregated.        *)
(***************************************************************************)
IsStringValue(v) == v[1] = "text"

StoredValues(out) ==
    UNION {UNION {{out[m].keys[q].translations[t][2] :
                        t \in 1..Len(out[m].keys[q].translations)} :
                    q \in 1..Len(out[m].keys)} :
            m \in 1..Len(out)}

C22_NonStringNotStored ==
    \A n \in 1..Len(outputs) :
        outputs[n].status = "resolved" =>
            \A v \in StoredValues(outputs[n].value) : IsStringValue(v)

(***************************************************************************)
(* C23.  The failures of a run are returned with its results, attached to  *)
(* the failing document, so that the caller can tell from the value        *)
(* parseModules resolves to which documents failed: two contents of the    *)
(* disk for which parseModules resolves to the same value have the same    *)
(* documents that could not be parsed.                                     *)
(***************************************************************************)
\* the keys parseModule builds from arbFiles when the disk holds d
RECURSIVE AggregateOn(_, _, _)
AggregateOn(d, arbFiles, km) ==
    IF arbFiles = <<>> THEN km
    ELSE AggregateOn(d, Tail(arbFiles),
                     MergeEntries(km, readArbFile(d, Head(arbFiles).path).entries,
                                  Head(arbFiles).locale, 1))

\* the value parseModules resolves to when the disk holds d
ParseModulesOn(d) ==
    [m \in 1..Len(modules) |->
        [name |-> modules[m].name,
         path |-> modules[m].path,
         keys |-> AggregateOn(d, modules[m].arbFiles, <<>>)]]

\* the documents readArbFile fails on
FailedDocuments(d) == {f \in ArbPaths : d[f].kind = "unreadable"}

\* a file that holds {} and a file that is not JSON
EmptyDocument == [kind |-> "object", entries |-> <<>>]
BrokenDocument == [kind |-> "unreadable", entries |-> <<>>]

\* the disks that differ from the disk in one file
OtherDisks ==
    {[disk EXCEPT ![f] = doc] :
        f \in ArbPaths, doc \in {EmptyDocument, BrokenDocument}}

C23_FailuresReturned ==
    \A n \in 1..Len(outputs) :
        outputs[n].status = "resolved" =>
            \A d \in OtherDisks :
                ParseModulesOn(d) = outputs[n].value
                    => FailedDocuments(d) = FailedDocuments(disk)

(***************************************************************************)
(* C24.  The debounce of FileWatcher: every accepted event clears the      *)
(* pending timeout and sets a new one, so at most one timeout is pending;  *)
(* onChange is invoked once for a burst of accepted events, after the last *)
(* event of the burst; an error thrown by onChange is caught and leaves    *)
(* the watcher and its timer as they are, so later events trigger onChange *)
(* again.                                                                  *)
(***************************************************************************)
\* the number of times startFileWatcher has run
Starts == CountLines(log, IsStartedLine)

AtMostOneTimer ==
    /\ timers <= 1
    /\ timers = 1 <=> debounceTimer = "armed"

\* handleChange accepts an event in this step
Accepts ==
    /\ Len(log') = Len(log) + 1
    /\ IsFileLine(log'[Len(log')])

Rearmed == Accepts => debounceTimer' = "armed" /\ timers' = 1

\* the lines of the log that are about the timer
IsTimerLine(l) == IsFileLine(l) \/ IsRegeneratingLine(l) \/ IsStartedLine(l)

\* every invocation of onChange comes right after an accepted event
OncePerBurst ==
    \A k \in 1..Len(log) :
        IsRegeneratingLine(log[k]) =>
            \E j \in 1..(k - 1) :
                /\ IsFileLine(log[j])
                /\ \A i \in (j + 1)..(k - 1) : ~IsTimerLine(log[i])

\* the catch of the timeout callback runs in this step
Catches == caught' = caught + 1

ErrorCaught ==
    Catches => UNCHANGED <<fileWatcher, debounceTimer, timers, watchers>>

\* a pending timeout goes away only by expiring, which invokes onChange
Expires ==
    debounceTimer = "armed" /\ debounceTimer' # "armed" =>
        /\ debounceTimer' = "expired"
        /\ log' = Append(log, RegeneratingLine)
        /\ running' = running + 1

ExpiresOrStopped ==
    \/ Expires
    \/ fileWatcher' = "undefined"
    \/ Starts' # Starts

OneWatcher ==
    /\ watchers <= 1
    /\ watchers = 1 <=> fileWatcher = "started"
    /\ fileWatcher = "undefined" => timers = 0 /\ debounceTimer = "null"

\* deactivate() runs, or the configuration changes to watchMode = false
StopsWatching ==
    \/ deactivated' /\ ~deactivated
    \/ settings' # settings /\ ~WatchMode(pubspec, settings')

StoppedForGood ==
    StopsWatching => fileWatcher' = "undefined" /\ watchers' = 0 /\ timers' = 0

\* onChange is invoked in this step
Invokes == running' = running + 1

NoWatcherNoOnChange == fileWatcher = "undefined" => ~Invokes

C28_AtMostOneWatcher ==
    /\ []OneWatcher
    /\ [][StoppedForGood /\ NoWatcherNoOnChange]_vars

\* the watcher was started twice and an accepted event was waiting for its
\* timeout when deactivate() stopped the watcher
C28_Witness ==
    /\ deactivated
    /\ Starts = 2
    /\ LastLine(IsFileLine) > LastLine(IsStartedLine)
    /\ LastLine(IsFileLine) > LastLine(IsRegeneratingLine)
    /\ watchers = 0
    /\ timers = 0

(***************************************************************************)
(* C25.  Whenever generateTranslations invokes the Dart generator, the     *)
(* module list and the locale list it passes are not empty, the locale     *)
(* list is the detected locales of the scan, and the default locale is one *)
(* of them: the configured default locale if it was detected, otherwise    *)
(* the first detected locale in sorted order.                              *)
(***************************************************************************)
\* config.defaultLocale of the run
ConfiguredDefaultLocale == Chars(effective.config.defaultLocale.s)

\* the locales of the ArbFiles of the modules
LocalesOf(ms) ==
    UNION {{ms[m].arbFiles[k].locale : k \in 1..Len(ms[m].arbFiles)} :
            m \in 1..Len(ms)}

\* l is the first of the locales in sorted order
FirstSorted(l, locales) ==
    /\ l \in Range(locales)
    /\ \A other \in Range(locales) : other = l \/ LessString(l, other)

C25_DefaultLocaleSupported ==
    \A n \in 1..Len(generator) :
        LET options == generator[n]
        IN /\ options.modules # <<>>
           /\ options.supportedLocales # <<>>
           /\ Range(options.supportedLocales) = LocalesOf(options.modules)
           /\ options.defaultLocale \in Range(options.supportedLocales)
           /\ IF ConfiguredDefaultLocale \in Range(options.supportedLocales)
              THEN options.defaultLocale = ConfiguredDefaultLocale
              ELSE FirstSorted(options.defaultLocale, options.supportedLocales)

\* the generator ran for two locales found in the order en, ar-EG while the
\* configured default locale is none of them: the default locale is ar-EG
C25_Witness ==
    /\ Len(generator) = 1
    /\ Len(generator[1].supportedLocales) = 2
    /\ arbFilePaths[1].content.locale.chars = <<"e","n">>
    /\ ConfiguredDefaultLocale = <<"x","x">>
    /\ generator[1].defaultLocale = <<"a","r","-","E","G">>

(***************************************************************************)
(* C27.  After the user has answered the class name warning with 'Change   *)
(* to ML', the restarted generation runs with the class name ML and the    *)
(* class name warning is not shown again.                                  *)
(***************************************************************************)
C27_ChangeToMLEndsThePrompts ==
    changedToML =>
        \/ gpc = "restart"
        \/ /\ gpc # "classPrompt"
           /\ effective.config.className = Str("ML")

(***************************************************************************)
(* C29.  Every ScanResult scanModules returns is consistent: the module    *)
(* names are pairwise distinct, every module has at least one ArbFile,     *)
(* every ArbFile carries the name of its module, every accepted file is in *)
(* one module once and no other file is in any, and detectedLocales is the *)
(* set of the locales of all ArbFiles without duplicates in ascending      *)
(* order.                                                                  *)
(***************************************************************************)
\* the file passes the checks of the loop of scanModules
Accepted(file) ==
    /\ ~isFlutterIntlFile(file.name)
    /\ validateAndParseArbFile(file.content).isValid

\* the places <<module, index>> of the result that hold the file found i-th
PlacesOf(ms, i) ==
    {mk \in (1..Len(ms)) \X (1..Len(arbFilePaths)) :
        /\ mk[2] <= Len(ms[mk[1]].arbFiles)
        /\ ms[mk[1]].arbFiles[mk[2]].path = i}

C29_ScanResultConsistent ==
    scanResult.defined =>
        LET ms == scanResult.modules
            locales == scanResult.detectedLocales
        IN /\ \A a, b \in 1..Len(ms) : a # b => ms[a].name # ms[b].name
           /\ \A m \in 1..Len(ms) :
                /\ Len(ms[m].arbFiles) >= 1
                /\ \A k \in 1..Len(ms[m].arbFiles) :
                        ms[m].arbFiles[k].moduleName = ms[m].name
           /\ \A i \in 1..Len(arbFilePaths) :
                Cardinality(PlacesOf(ms, i))
                    = IF Accepted(arbFilePaths[i]) THEN 1 ELSE 0
           /\ \A a, b \in 1..Len(locales) :
                a < b => LessString(locales[a], locales[b])
           /\ Range(locales) = LocalesOf(ms)

\* two files of one module were accepted, found in the order en, ar-EG, and
\* the detected locales are in the other order
C29_Witness ==
    /\ scanResult.defined
    /\ Len(scanResult.modules) = 1
    /\ Len(scanResult.modules[1].arbFiles) = 2
    /\ scanResult.modules[1].arbFiles[1].locale = <<"e","n">>
    /\ scanResult.detectedLocales = <<<<"a","r","-","E","G">>, <<"e","n">>>>

(***************************************************************************)
(* C30.  isInsideIcuBlock(text, position) is true only if the brace depth  *)
(* at position is positive and the block most recently opened at depth 1,  *)
(* the outermost block around position, begins with an ICU header; it is   *)
(* false inside a depth-1 block that is not an ICU header, also when an    *)
(* ICU header occurred nested inside that block earlier.                   *)
(***************************************************************************)
\* the '{' before position that take the depth from 0 to 1
OpenedAtDepthOne(t, position) ==
    {i \in 0..(position - 1) :
        CharAt(t, i) = "{" /\ BraceBalance(t, i + 1) = 1}

\* the positions at which extractPlaceholders asks isInsideIcuBlock: the
\* {word} placeholders that name a control variable
PositionsAsked(t) ==
    {i \in 0..(Len(t) - 1) :
        /\ SimpleMatch(t, i).ok
        /\ SimpleMatch(t, i).name \in ControlVariables(t)}

C30_OutermostBlockDecides ==
    Called("extractPlaceholders") =>
        \A position \in PositionsAsked(text) :
            isInsideIcuBlock(text, position) =>
                /\ BraceBalance(text, position) > 0
                /\ OpenedAtDepthOne(text, position) # {}
                /\ HeaderMatch(text, Max(OpenedAtDepthOne(text, position))).ok

====
